---- MODULE Spec2Model ----
(***************************************************************************)
(* SARA voice ordering assistant (CreaCheetah/SARA).                       *)
(*                                                                         *)
(* Two services share the keyed store (Redis):                             *)
(*   app.py                the FastAPI service: runtime status, admin      *)
(*                         toggles, the voice webhooks and their own       *)
(*                         dialogue router (voice_handle);                 *)
(*   conversation_flow.py  FlowManager: overrides, runtime status and the  *)
(*                         dialogue state machine handle_utterance.        *)
(*                                                                         *)
(* Time is in seconds.  Money is in euro cents.  Every handler is one      *)
(* atomic action; the HTTP exchange it answered stays in `http` until the  *)
(* response is delivered.  Every store operation of a handler may fail     *)
(* (the handlers wrap them in try/except): the flags rok/wok of an action  *)
(* say whether its reads/writes succeeded.                                 *)
(***************************************************************************)
EXTENDS Integers, Sequences, FiniteSets, TLC

VARIABLES
    clock,   \* now, seconds since midnight of the first day (datetime.now(TZ))
    ovr,     \* store key "mada:overrides": [present, val, expires_at] and its
             \* history: written_at, req (the request body that wrote it)
    calls,   \* store keys "call:<sid>": sid -> [present, val, expires_at]
    orders,  \* the order sink: the ids issued, the hash "orders:index", the
             \* keys "order:<id>" and the lines of /mnt/data/orders.log
    http     \* the HTTP exchange just answered: [ep, req, resp, ...] or idle

vars == <<clock, ovr, calls, orders, http>>

---------------------------------------------------------------------------
(* Clock and opening hours                                                 *)

HMS(h, m, s) == (h * 60 + m) * 60 + s

DaySeconds == HMS(24, 0, 0)

OPEN_START == HMS(16, 0, 0)
OPEN_END == HMS(22, 0, 0)
DEL_START == HMS(17, 0, 0)
DEL_END == HMS(21, 30, 0)

TimeOfDay(now) == now % DaySeconds

\* Seconds sampled before each boundary of the opening hours.
Slack == 1

\* The boundaries of the hours with the seconds before them, and the times
\* of day of the scenarios: 10:00 (forced open) and 19:00 (default).
Instants ==
    {b - k : b \in {OPEN_START, DEL_START, DEL_END, OPEN_END}, k \in 0..Slack}
        \cup {HMS(10, 0, 0), HMS(19, 0, 0)}

---------------------------------------------------------------------------
(* Dictionaries (Python dict / JSON object) as functions on their keys     *)

Get(d, k, default) == IF k \in DOMAIN d THEN d[k] ELSE default

Put(d, k, v) == [x \in DOMAIN d \cup {k} |-> IF x = k THEN v ELSE d[x]]

---------------------------------------------------------------------------
(* Keyed store                                                             *)

NoKey == [present |-> FALSE]

\* GET sees a key until its expiry time is reached (SET ... ex=seconds).
Live(entry, now) == entry.present /\ now < entry.expires_at

---------------------------------------------------------------------------
(* Overrides (app.py)                                                      *)

DEFAULT_OVERRIDES ==
    [bot_enabled |-> TRUE,
     pasta_available |-> TRUE,
     delay_pasta_minutes |-> 0,
     delay_schotels_minutes |-> 0,
     is_open_override |-> "auto",
     delivery_enabled |-> FALSE]

OVERRIDES_TTL_MIN == 180

\* load_overrides: defaults when the read fails or the key is absent, else
\* the defaults updated with the stored keys that are keys of the defaults.
load_overrides(rok) ==
    IF ~rok \/ ~Live(ovr, clock)
    THEN DEFAULT_OVERRIDES
    ELSE [k \in DOMAIN DEFAULT_OVERRIDES |-> Get(ovr.val, k, DEFAULT_OVERRIDES[k])]

\* save_overrides: the record that is written, the request's keys that are
\* keys of the defaults, every other key of the request dropped.
save_overrides_body(data) ==
    [k \in DOMAIN DEFAULT_OVERRIDES |-> Get(data, k, DEFAULT_OVERRIDES[k])]

\* The store key after save_overrides: set with ex=OVERRIDES_TTL_MIN*60, or
\* left as it was when the write fails (except: pass).
save_overrides_store(data, req, wok) ==
    IF wok
    THEN [present |-> TRUE,
          val |-> save_overrides_body(data),
          expires_at |-> clock + OVERRIDES_TTL_MIN * 60,
          written_at |-> clock,
          req |-> req]
    ELSE ovr

---------------------------------------------------------------------------
(* Runtime status (app.py)                                                 *)

\* A variant that keeps the restaurant open at 22:00:00 sharp.
_auto_closing_inclusive(now) ==
    LET t == TimeOfDay(now)
        open_now == OPEN_START <= t /\ t <= OPEN_END
        delivery_now == open_now /\ DEL_START <= t /\ t < DEL_END
    IN  [now |-> now,
         mode |-> IF open_now THEN "open" ELSE "closed",
         delivery_window |-> delivery_now]

_auto(now) ==
    LET t == TimeOfDay(now)
        open_now == OPEN_START <= t /\ t < OPEN_END
        delivery_now == OPEN_START <= t /\ t < OPEN_END /\ DEL_START <= t /\ t < DEL_END
    IN  [now |-> now,
         mode |-> IF open_now THEN "open" ELSE "closed",
         delivery_window |-> delivery_now]

\* A variant that ignores is_open_override=open.
status_mode_never_forced_open(ov, auto) ==
    IF ov.is_open_override = "closed" THEN "closed" ELSE auto.mode

status_mode(ov, auto) ==
    IF ov.is_open_override = "open" THEN "open"
    ELSE IF ov.is_open_override = "closed" THEN "closed"
    ELSE auto.mode

\* A variant without the closed guard.
status_delivery_unguarded(ov, auto, mode) == ov.delivery_enabled \/ auto.delivery_window

status_delivery(ov, auto, mode) ==
    IF mode = "closed" THEN FALSE ELSE (ov.delivery_enabled \/ auto.delivery_window)

evaluate_status(now, ov) ==
    LET auto == _auto(now)
        mode == status_mode(ov, auto)
    IN  [now |-> auto.now,
         mode |-> mode,
         delivery_enabled |-> status_delivery(ov, auto, mode),
         bot_enabled |-> ov.bot_enabled,
         pasta_available |-> ov.pasta_available,
         delay_pasta_minutes |-> ov.delay_pasta_minutes,
         delay_schotels_minutes |-> ov.delay_schotels_minutes]

---------------------------------------------------------------------------
(* POST /admin/toggles (app.py)                                            *)

Abs(n) == IF n < 0 THEN -n ELSE n

allowed == <<0, 10, 20, 30, 45, 60>>

\* A variant that stores the delay as it was sent.
_norm_as_sent(n) == n

\* _norm: min(allowed, key=lambda a: abs(a-n)), the first of the nearest.
_norm(n) ==
    LET best == CHOOSE i \in DOMAIN allowed :
                    /\ \A j \in DOMAIN allowed : Abs(allowed[i] - n) <= Abs(allowed[j] - n)
                    /\ \A j \in 1..(i - 1) : Abs(allowed[j] - n) > Abs(allowed[i] - n)
    IN  allowed[best]

BadJSON == [invalid_json |-> TRUE]

\* The request body after the handler's normalisation of its fields.
toggles_body(body) ==
    LET b1 == IF Get(body, "is_open_override", "") \notin {"auto", "open", "closed"}
              THEN Put(body, "is_open_override", "auto")
              ELSE body
        b2 == Put(b1, "delay_pasta_minutes", _norm(Get(body, "delay_pasta_minutes", 0)))
    IN  Put(b2, "delay_schotels_minutes", _norm(Get(body, "delay_schotels_minutes", 0)))

toggles_response(body) ==
    IF body = BadJSON
    THEN [code |-> 400, detail |-> "Invalid JSON"]
    ELSE [code |-> 200,
          ok |-> TRUE,
          saved |-> save_overrides_body(toggles_body(body)),
          ttl_minutes |-> OVERRIDES_TTL_MIN]

admin_toggles(body, wok) ==
    /\ http.ep = "idle"
    /\ ovr' = IF body = BadJSON THEN ovr
              ELSE save_overrides_store(toggles_body(body), body, wok)
    /\ http' = [ep |-> "admin_toggles", req |-> body, resp |-> toggles_response(body)]
    /\ UNCHANGED <<clock, calls, orders>>

---------------------------------------------------------------------------
(* Text: a Python str is the sequence of its characters                    *)

DigitChars == <<"0", "1", "2", "3", "4", "5", "6", "7", "8", "9">>

LowerChars == <<"a", "b", "c", "d", "e", "f", "g", "h", "i", "j", "k", "l", "m",
                "n", "o", "p", "q", "r", "s", "t", "u", "v", "w", "x", "y", "z">>

UpperChars == <<"A", "B", "C", "D", "E", "F", "G", "H", "I", "J", "K", "L", "M",
                "N", "O", "P", "Q", "R", "S", "T", "U", "V", "W", "X", "Y", "Z">>

Range(f) == {f[i] : i \in DOMAIN f}

DigitSet == Range(DigitChars)

LowerSet == Range(LowerChars)

UpperSet == Range(UpperChars)

IsDigit(c) == c \in DigitSet

IsLower(c) == c \in LowerSet

IsUpper(c) == c \in UpperSet

IsAlpha(c) == IsLower(c) \/ IsUpper(c)

IsSpace(c) == c = " "

\* \w of the regular expressions
IsWordChar(c) == IsAlpha(c) \/ IsDigit(c) \/ c = "_"

IndexOf(c, alphabet) == CHOOSE i \in DOMAIN alphabet : alphabet[i] = c

\* The lower-case and upper-case forms of the letters, the value of a digit
ToLower == [c \in UpperSet |-> LowerChars[IndexOf(c, UpperChars)]]

ToUpper == [c \in LowerSet |-> UpperChars[IndexOf(c, LowerChars)]]

DigitValue == [c \in DigitSet |-> IndexOf(c, DigitChars) - 1]

\* str.lower, str.upper
lower(s) == [i \in DOMAIN s |-> IF IsUpper(s[i]) THEN ToLower[s[i]] ELSE s[i]]

upper(s) == [i \in DOMAIN s |-> IF IsLower(s[i]) THEN ToUpper[s[i]] ELSE s[i]]

\* str.strip
strip(s) ==
    LET keep == {i \in DOMAIN s : ~IsSpace(s[i])}
    IN  IF keep = {} THEN <<>>
        ELSE SubSeq(s, CHOOSE i \in keep : \A j \in keep : i <= j,
                       CHOOSE i \in keep : \A j \in keep : j <= i)

\* re.sub(r"\s+", " ", s)
RECURSIVE collapse_spaces(_)
collapse_spaces(s) ==
    IF Len(s) <= 1 THEN s
    ELSE IF IsSpace(s[1]) /\ IsSpace(s[2]) THEN collapse_spaces(Tail(s))
    ELSE <<s[1]>> \o collapse_spaces(Tail(s))

\* k in s
IsSub(k, s) == \E i \in 0..(Len(s) - Len(k)) : SubSeq(s, i + 1, i + Len(k)) = k

\* any(k in s for k in keys)
AnySub(keys, s) == \E k \in keys : IsSub(k, s)

\* s.replace(" ", "")
without_spaces(s) == SelectSeq(s, LAMBDA c : ~IsSpace(c))

\* "".join(ch for ch in s if ch.isdigit())
digits_of(s) == SelectSeq(s, IsDigit)

\* int(s) of a string of digits
RECURSIVE int_of(_)
int_of(s) ==
    IF s = <<>> THEN 0
    ELSE 10 * int_of(SubSeq(s, 1, Len(s) - 1)) + DigitValue[s[Len(s)]]

\* s.split(): the words between the spaces
RECURSIVE split(_)
split(s) ==
    IF s = <<>> THEN <<>>
    ELSE IF IsSpace(s[1]) THEN split(Tail(s))
    ELSE LET stops == {i \in DOMAIN s : IsSpace(s[i])}
             n == IF stops = {} THEN Len(s) + 1 ELSE CHOOSE i \in stops : \A j \in stops : i <= j
         IN  <<SubSeq(s, 1, n - 1)>> \o split(SubSeq(s, n, Len(s)))

\* The last index of the run of characters satisfying T that starts at i.
RunEnd(s, i, T(_)) ==
    CHOOSE j \in i..Len(s) :
        /\ \A k \in i..j : T(s[k])
        /\ j = Len(s) \/ ~T(s[j + 1])

\* \b at the gap before index i (1..Len+1)
WordBoundary(s, i) ==
    LET before == i > 1 /\ IsWordChar(s[i - 1])
        after == i <= Len(s) /\ IsWordChar(s[i])
    IN  before # after

\* re.search(r"\b\d{4}\s?[a-zA-Z]{2}\b", s): the first match, or <<>>
search_postcode(s) ==
    LET matches ==
            {<<i, j>> \in (DOMAIN s) \X (DOMAIN s) :
                /\ WordBoundary(s, i)
                /\ i + 3 <= Len(s)
                /\ \A k \in i..(i + 3) : IsDigit(s[k])
                /\ \E sp \in 0..1 :
                     /\ j = i + 3 + sp + 2
                     /\ sp = 1 => IsSpace(s[i + 4])
                     /\ IsAlpha(s[j - 1]) /\ IsAlpha(s[j])
                /\ WordBoundary(s, j + 1)}
    IN  IF matches = {} THEN <<>>
        ELSE LET m == CHOOSE m \in matches : \A o \in matches : m[1] <= o[1]
             IN  SubSeq(s, m[1], m[2])

\* re.search(r"\b(\d{1,4}[a-zA-Z]?)\b", s): group 1 of the first match, the
\* longest the greedy quantifiers allow, or <<>>
search_house_number(s) ==
    LET matches ==
            {<<i, j>> \in (DOMAIN s) \X (DOMAIN s) :
                /\ WordBoundary(s, i)
                /\ \E d \in 1..4 :
                     /\ i + d - 1 <= Len(s)
                     /\ \A k \in i..(i + d - 1) : IsDigit(s[k])
                     /\ \/ j = i + d - 1
                        \/ j = i + d /\ j <= Len(s) /\ IsAlpha(s[j])
                /\ WordBoundary(s, j + 1)}
    IN  IF matches = {} THEN <<>>
        ELSE LET first == CHOOSE m \in matches : \A o \in matches : m[1] <= o[1]
                 ends == {m[2] : m \in {o \in matches : o[1] = first[1]}}
             IN  SubSeq(s, first[1], CHOOSE j \in ends : \A k \in ends : k <= j)

---------------------------------------------------------------------------
(* What callers say                                                        *)

VoiceUtterances ==
    {<<>>, <<"2", " ", "p", "i", "z", "z", "a", " ", "m", "a", "r", "g", "h", "e", "r", "i", "t", "a">>, <<"p", "i", "z", "z", "a", " ", "s", "a", "l", "a", "m", "i">>, <<"n", "e", "e">>, <<"j", "a">>,
     <<"a", "f", "h", "a", "l", "e", "n">>, <<"b", "e", "z", "o", "r", "g", "e", "n">>, <<"0", "6", "1", "2", "3", "4", "5", "6", "7", "8">>, <<"0", "6", "0", "0", "0", "0", "0", "0", "0", "0">>,
     <<"1", "2", "3", "4", " ", "A", "B", " ", "5">>, <<"c", "o", "n", "t", "a", "n", "t">>}

FlowUtterances ==
    {<<>>, <<"t", "w", "e", "e", " ", "m", "a", "r", "g", "h", "e", "r", "i", "t", "a">>, <<"p", "i", "z", "z", "a", " ", "s", "a", "l", "a", "m", "i">>, <<"e", "e", "n", " ", "p", "i", "z", "z", "a", "'", "s">>, <<"n", "e", "e">>, <<"j", "a">>,
     <<"a", "f", "h", "a", "l", "e", "n">>, <<"b", "e", "z", "o", "r", "g", "e", "n">>, <<"0", "6", "1", "2", "3", "4", "5", "6", "7", "8">>,
     <<"1", "2", "3", "4", " ", "A", "B", " ", "5">>, <<"i", "k", " ", "w", "i", "l", " ", "b", "e", "s", "t", "e", "l", "l", "e", "n">>,
     <<"0", " ", "s", "a", "l", "a", "m", "i">>}

\* Every text the handlers derive from what is said; the text functions are
\* evaluated on these once (Memo) instead of at every turn.
Spoken == VoiceUtterances \cup FlowUtterances

Memo(table, F(_), t) == IF t \in DOMAIN table THEN table[t] ELSE F(t)

Postcodes ==
    [t \in {strip(u) : u \in Spoken} \cup {lower(strip(u)) : u \in Spoken} |-> search_postcode(t)]

HouseNumbers ==
    [t \in {strip(u) : u \in Spoken} \cup {lower(strip(u)) : u \in Spoken} |->
        search_house_number(t)]

---------------------------------------------------------------------------
(* The files the services load: menu, delivery configuration, customers    *)

\* The menu catalogue (MENU_PATH): name and price in cents.
MenuCatalogue ==
    <<[code |-> "margherita", name |-> <<"P", "i", "z", "z", "a", " ", "M", "a", "r", "g", "h", "e", "r", "i", "t", "a">>, price |-> 900],
      [code |-> "salami", name |-> <<"P", "i", "z", "z", "a", " ", "S", "a", "l", "a", "m", "i">>, price |-> 1050]>>

\* The delivery configuration (CONFIG_DELIVERY): fees in cents.
DeliveryConfig ==
    [zones |-> <<[postcodes |-> <<<<"1", "2", "3", "4">>>>, fee |-> 250],
                 [postcodes |-> <<<<"1", "2">>, <<"1", "3">>>>, fee |-> 400]>>,
     sla |-> [pickup_minutes |-> 15, pickup_combo_minutes |-> 30, delivery_minutes |-> 60]]

\* The customer directory (CUSTOMER_CSV), one row per customer.
CustomerRows ==
    <<[phone |-> <<"0", "6", "-", "1", "2", "3", "4", "5", "6", "7", "8">>, mobile |-> <<>>, postcode |-> <<"1", "2", "3", "4", "A", "B">>,
       street1 |-> <<"D", "o", "r", "p", "s", "s", "t", "r", "a", "a", "t">>, house_number |-> <<"5">>]>>

---------------------------------------------------------------------------
(* Call sessions (app.py)                                                  *)

CALL_TTL_SEC == 2 * 3600

None == [none |-> TRUE]

\* The session _get_call returns when the key is absent or the read fails.
DefaultCall ==
    [state |-> "greet", items |-> <<>>, total |-> 0, fulfilment |-> None,
     customer |-> <<>>, payment |-> "none"]

_get_call(call_sid, rok) ==
    IF rok /\ Live(calls[call_sid], clock) THEN calls[call_sid].val ELSE DefaultCall

\* The key after _save_call: set with ex=CALL_TTL_SEC, or left as it was
\* when the write fails (except: pass).
_save_call(entry, data, wok) ==
    IF wok
    THEN [present |-> TRUE, val |-> data, expires_at |-> clock + CALL_TTL_SEC]
    ELSE entry

\* The key after the writes of one turn, in their order, each succeeding
\* or failing.
RECURSIVE save_all(_, _, _)
save_all(entry, writes, woks) ==
    IF writes = <<>> THEN entry
    ELSE save_all(_save_call(entry, Head(writes), Head(woks)), Tail(writes), Tail(woks))

---------------------------------------------------------------------------
(* Menu and parser of app.py                                               *)

MENU_ITEMS ==
    LET valid == SelectSeq(MenuCatalogue, LAMBDA it : it.name # <<>> /\ it.price > 0)
    IN  [i \in DOMAIN valid |->
            [code |-> valid[i].code, name |-> valid[i].name, price |-> valid[i].price,
             norm |-> lower(valid[i].name)]]

\* A variant that does not clamp: the second argument as it is.
Max_unclamped(a, b) == b

Max(a, b) == IF a >= b THEN a ELSE b

\* The characters of the tail group [a-z0-9...\s\-]
IsQtyTail(c) == IsLower(c) \/ IsDigit(c) \/ IsSpace(c) \/ c = "-"

\* re.findall(r"(\d+)\s+([a-z0-9...\s\-]+)", txt) from index i on: the
\* (digits, tail) pairs, left to right, not overlapping.
RECURSIVE qty_findall(_, _)
qty_findall(txt, i) ==
    IF i > Len(txt) THEN <<>>
    ELSE IF ~IsDigit(txt[i]) THEN qty_findall(txt, i + 1)
    ELSE LET j == RunEnd(txt, i, IsDigit)
             sp == IF j + 1 <= Len(txt) /\ IsSpace(txt[j + 1])
                   THEN RunEnd(txt, j + 1, IsSpace) ELSE j
         IN  IF sp > j /\ sp + 1 <= Len(txt) /\ IsQtyTail(txt[sp + 1])
             THEN LET e == RunEnd(txt, sp + 1, IsQtyTail)
                  IN  <<[qty_s |-> SubSeq(txt, i, j), tail |-> SubSeq(txt, sp + 1, e)]>>
                          \o qty_findall(txt, e + 1)
             ELSE qty_findall(txt, i + 1)

\* The loop over MENU_ITEMS for one tail: the index of best, 0 for None.
RECURSIVE qty_best(_, _, _, _)
qty_best(k, best, tail, used) ==
    IF k > Len(MENU_ITEMS) THEN best
    ELSE LET it == MENU_ITEMS[k]
             tokens == SelectSeq(split(it.norm), LAMBDA t : Len(t) > 3)
         IN  IF IsSub(it.norm, tail) /\ it.norm \notin used THEN k
             ELSE IF \E n \in DOMAIN tokens : IsSub(tokens[n], tail)
                  THEN qty_best(k + 1, k, tail, used)
                  ELSE qty_best(k + 1, best, tail, used)

Item(it, qty) == [code |-> it.code, name |-> it.name, price |-> it.price, qty |-> qty]

\* The loop over the (digits, tail) pairs.
RECURSIVE qty_found(_, _, _)
qty_found(ms, used, found) ==
    IF ms = <<>> THEN found
    ELSE LET qty == Max(1, int_of(Head(ms).qty_s))
             best == qty_best(1, 0, Head(ms).tail, used)
         IN  IF best # 0
             THEN qty_found(Tail(ms), used \cup {MENU_ITEMS[best].norm},
                            Append(found, Item(MENU_ITEMS[best], qty)))
             ELSE qty_found(Tail(ms), used, found)

_parse_qty_and_name(utt) ==
    LET txt == strip(collapse_spaces(lower(utt)))
        found == qty_found(qty_findall(txt, 1), {}, <<>>)
        named == SelectSeq(MENU_ITEMS, LAMBDA it : IsSub(it.norm, txt))
    IN  IF found # <<>> THEN found
        ELSE [i \in DOMAIN named |-> Item(named[i], 1)]

ParsedQty == [t \in {strip(u) : u \in Spoken} |-> _parse_qty_and_name(t)]

RECURSIVE _order_total(_)
_order_total(items) ==
    IF items = <<>> THEN 0
    ELSE Head(items).qty * Head(items).price + _order_total(Tail(items))

IsPrefix(p, s) == Len(p) <= Len(s) /\ SubSeq(s, 1, Len(p)) = p

\* A variant that charges the last zone that matches.
_delivery_fee_last_zone(postcode) ==
    IF postcode = <<>> THEN 0
    ELSE LET pc == upper(without_spaces(postcode))
             zones == DeliveryConfig.zones
             hits == {z \in DOMAIN zones :
                        \E n \in DOMAIN zones[z].postcodes :
                            IsPrefix(upper(without_spaces(zones[z].postcodes[n])), pc)}
         IN  IF hits = {} THEN 0
             ELSE zones[CHOOSE z \in hits : \A y \in hits : z >= y].fee

\* The fee of the first zone one of whose prefixes starts the postcode.
_delivery_fee(postcode) ==
    IF postcode = <<>> THEN 0
    ELSE LET pc == upper(without_spaces(postcode))
             zones == DeliveryConfig.zones
             hits == {z \in DOMAIN zones :
                        \E n \in DOMAIN zones[z].postcodes :
                            IsPrefix(upper(without_spaces(zones[z].postcodes[n])), pc)}
         IN  IF hits = {} THEN 0
             ELSE zones[CHOOSE z \in hits : \A y \in hits : z <= y].fee

\* A variant that quotes the SLA minutes alone.
_eta_minutes_without_delay(fulfilment, delay_pasta, delay_schotels) ==
    IF fulfilment = "delivery" THEN DeliveryConfig.sla.delivery_minutes
    ELSE DeliveryConfig.sla.pickup_minutes

_eta_minutes(fulfilment, delay_pasta, delay_schotels) ==
    (IF fulfilment = "delivery" THEN DeliveryConfig.sla.delivery_minutes
     ELSE DeliveryConfig.sla.pickup_minutes) + Max(delay_pasta, delay_schotels)

\* (now + minutes).strftime("%H:%M"), as minutes since midnight
ready_time(now, minutes) == (TimeOfDay(now + minutes * 60)) \div 60

Lowered == [t \in {strip(u) : u \in Spoken} |-> lower(t)]

_contains(text, keys) == AnySub(keys, Memo(Lowered, lower, text))

\* The customer row of a telephone number: the lookup of the phone state.
crm_found(tel) ==
    LET hits == {r \in DOMAIN CustomerRows :
                    tel \in {digits_of(CustomerRows[r].phone), digits_of(CustomerRows[r].mobile)}}
    IN  IF tel = <<>> \/ hits = {} THEN None
        ELSE LET row == CustomerRows[CHOOSE r \in hits : \A y \in hits : r <= y]
             IN  [postcode |-> row.postcode, straat |-> row.street1, huisnr |-> row.house_number]

---------------------------------------------------------------------------
(* Voice webhooks (app.py)                                                 *)

Msg(key) == [key |-> key]

\* The call-control document: the messages played, then a redirect to the
\* step endpoint or the end of the document.
Doc(plays, redirect) == [code |-> 200, plays |-> plays, redirect |-> redirect]

_greeting_by_status(st, now) ==
    IF st.mode = "open"
    THEN IF TimeOfDay(now) < HMS(12, 0, 0) THEN "greet_open_morning"
         ELSE IF TimeOfDay(now) < HMS(18, 0, 0) THEN "greet_open_afternoon"
         ELSE "greet_open_evening"
    ELSE "greet_closed"

\* One turn: the sessions written, in order, and the response.
Turn(writes, resp) == [writes |-> writes, resp |-> resp]

\* A variant whose document ends after the message.
say_without_redirect(state, msg, next_state) ==
    Turn(<<[state EXCEPT !.state = next_state]>>, Doc(<<msg>>, FALSE))

say_and_next(state, msg, next_state) ==
    Turn(<<[state EXCEPT !.state = next_state]>>, Doc(<<msg>>, TRUE))

item_added(items) ==
    [key |-> "item_added", qty |-> items[Len(items)].qty, name |-> items[Len(items)].name]

\* The summary: two writes (state summarize, then the total) and the move
\* to fulfilment.
summarize(state) ==
    LET s1 == [state EXCEPT !.state = "summarize"]
        total == _order_total(state.items)
        s2 == [s1 EXCEPT !.total = total]
        msg == [key |-> "summarize", items |-> state.items, total |-> total]
        nxt == say_and_next(s2, msg, "fulfilment")
    IN  Turn(<<s1, s2>> \o nxt.writes, nxt.resp)

handle_ask_items(state, speech) ==
    LET items == Memo(ParsedQty, _parse_qty_and_name, speech)
    IN  IF items # <<>>
        THEN Turn(<<[state EXCEPT !.items = @ \o items, !.state = "confirm_more"]>>,
                  Doc(<<item_added(items), Msg("confirm_more")>>, TRUE))
        ELSE IF _contains(speech, {<<"d", "a", "t", " ", "i", "s", " ", "a", "l", "l", "e", "s">>, <<"k", "l", "a", "a", "r">>, <<"n", "e", "e">>, <<"n", "i", "e", "t", "s">>}) /\ state.items # <<>>
             THEN summarize(state)
             ELSE say_and_next(state, Msg("ask_items"), "ask_items")

handle_confirm_more(state, speech) ==
    IF _contains(speech, {<<"j", "a">>, <<"n", "o", "g">>, <<"t", "o", "e", "v", "o", "e", "g", "e", "n">>, <<"m", "e", "e", "r">>})
    THEN say_and_next(state, Msg("ask_items"), "ask_items")
    ELSE IF _contains(speech, {<<"n", "e", "e">>, <<"d", "a", "t", " ", "i", "s", " ", "a", "l", "l", "e", "s">>, <<"k", "l", "a", "a", "r">>, <<"n", "i", "e", "t", "s">>})
         THEN summarize(state)
         ELSE say_and_next(state, Msg("confirm_more"), "confirm_more")

handle_fulfilment(state, speech) ==
    IF _contains(speech, {<<"a", "f", "h", "a", "a", "l">>, <<"a", "f", "h", "a", "l", "e", "n">>, <<"o", "p", "h", "a", "l", "e", "n">>, <<"p", "i", "c", "k", "u", "p">>})
    THEN LET s1 == [state EXCEPT !.fulfilment = [type |-> "pickup"]]
             nxt == say_and_next(s1, Msg("ask_payment_pickup"), "payment")
         IN  Turn(<<s1>> \o nxt.writes, nxt.resp)
    ELSE IF _contains(speech, {<<"b", "e", "z", "o", "r", "g">>, <<"b", "e", "z", "o", "r", "g", "e", "n">>, <<"t", "h", "u", "i", "s">>})
         THEN LET s1 == [state EXCEPT !.fulfilment = [type |-> "delivery"]]
                  nxt == say_and_next(s1, Msg("ask_phone_for_delivery"), "phone")
              IN  Turn(<<s1>> \o nxt.writes, nxt.resp)
         ELSE say_and_next(state, Msg("ask_fulfilment"), "fulfilment")

confirm_lookup_found(customer) ==
    [key |-> "confirm_lookup_found", straat |-> Get(customer, "straat", <<>>),
     huisnr |-> Get(customer, "huisnr", <<>>), postcode |-> Get(customer, "postcode", <<>>)]

handle_phone(state, speech) ==
    LET tel == digits_of(speech)
        s1 == [state EXCEPT !.customer = Put(@, "tel", tel)]
        found == crm_found(tel)
    IN  IF found # None /\ (found.straat # <<>> \/ found.postcode # <<>>)
        THEN LET s2 == [s1 EXCEPT !.customer =
                            [k \in DOMAIN @ \cup DOMAIN found |->
                                IF k \in DOMAIN found THEN found[k] ELSE @[k]]]
                 nxt == say_and_next(s2, confirm_lookup_found(found), "crm_confirm")
             IN  Turn(<<s2>> \o nxt.writes, nxt.resp)
        ELSE say_and_next(s1, Msg("confirm_lookup_missing"), "address")

handle_crm_confirm(state, speech) ==
    IF _contains(speech, {<<"j", "a">>, <<"k", "l", "o", "p", "t">>, <<"c", "o", "r", "r", "e", "c", "t">>})
    THEN say_and_next(state, Msg("ask_payment_delivery"), "payment")
    ELSE IF _contains(speech, {<<"n", "e", "e">>, <<"k", "l", "o", "p", "t", " ", "n", "i", "e", "t">>})
         THEN say_and_next(state, Msg("confirm_lookup_missing"), "address")
         ELSE say_and_next(state, confirm_lookup_found(state.customer), "crm_confirm")

handle_address(state, speech) ==
    LET pc == Memo(Postcodes, search_postcode, speech)
        hn == Memo(HouseNumbers, search_house_number, speech)
        c1 == IF pc # <<>> THEN Put(state.customer, "postcode", upper(without_spaces(pc)))
              ELSE state.customer
        c2 == IF hn # <<>> THEN Put(c1, "huisnr", hn) ELSE c1
        s1 == [state EXCEPT !.customer = c2]
    IN  IF Get(c2, "postcode", <<>>) # <<>> /\ Get(c2, "huisnr", <<>>) # <<>>
        THEN say_and_next(s1, Msg("ask_payment_delivery"), "payment")
        ELSE say_and_next(s1, Msg("repeat_postcode_house"), "address")

\* state.get("fulfilment", {}).get("type"): an AttributeError on None
fulfilment_type(state) == Get(state.fulfilment, "type", "none")

ServerError == [code |-> 500]

handle_payment(state, speech) ==
    LET paid(p) == LET s1 == [state EXCEPT !.payment = p]
                       nxt == say_and_next(s1, Msg("thanks"), "eta")
                   IN  Turn(<<s1>> \o nxt.writes, nxt.resp)
    IN  IF _contains(speech, {<<"i", "d", "e", "a", "l">>, <<"i", " ", "d", "e", "a", "l">>, <<"l", "i", "n", "k">>}) THEN paid("ideal")
        ELSE IF _contains(speech, {<<"c", "o", "n", "t", "a", "n", "t">>, <<"c", "a", "s", "h">>}) THEN paid("cash")
        ELSE IF _contains(speech, {<<"p", "i", "n">>}) THEN paid("pin")
        ELSE IF state.fulfilment = None THEN Turn(<<>>, ServerError)
        ELSE IF fulfilment_type(state) = "delivery"
             THEN say_and_next(state, Msg("ask_payment_delivery"), "payment")
             ELSE say_and_next(state, Msg("ask_payment_pickup"), "payment")

\* The final turn: the ready time and the total are spoken and the
\* document ends; the session keeps the state eta.
handle_eta(state, st) ==
    IF state.fulfilment = None THEN Turn(<<>>, ServerError)
    ELSE LET fulfil == IF fulfilment_type(state) = "none" THEN "pickup" ELSE fulfilment_type(state)
             fee == IF fulfil = "delivery"
                    THEN _delivery_fee(Get(state.customer, "postcode", <<>>)) ELSE 0
             total == _order_total(state.items) + fee
             eta_min == _eta_minutes(fulfil, st.delay_pasta_minutes, st.delay_schotels_minutes)
             ready_at == ready_time(st.now, eta_min)
         IN  Turn(<<[state EXCEPT !.total = total]>>,
                  Doc(<<[key |-> IF fulfil = "delivery" THEN "eta_delivery" ELSE "eta_pickup",
                         tijd |-> ready_at],
                        [key |-> "total_amount", total |-> total],
                        Msg("closing")>>, FALSE))

\* voice_handle after the session is read: st is the status of the closed
\* check, st2 the status the eta state evaluates.
voice_router(state, speech, st2) ==
    LET s == state.state
    IN  IF s = "greet" THEN say_and_next(state, Msg("ask_items"), "ask_items")
        ELSE IF s \in {"ask_items", "collecting"} THEN handle_ask_items(state, speech)
        ELSE IF s = "confirm_more" THEN handle_confirm_more(state, speech)
        ELSE IF s = "fulfilment" THEN handle_fulfilment(state, speech)
        ELSE IF s = "phone" THEN handle_phone(state, speech)
        ELSE IF s = "crm_confirm" THEN handle_crm_confirm(state, speech)
        ELSE IF s = "address" THEN handle_address(state, speech)
        ELSE IF s = "payment" THEN handle_payment(state, speech)
        ELSE IF s = "eta" THEN handle_eta(state, st2)
        ELSE Turn(<<>>, Doc(<<Msg("fallback1")>>, TRUE))

\* gesloten -> direct closed prompt en stop
closed_check(st, now) == _greeting_by_status(st, now) = "greet_closed"

\* A variant without the closed check.
voice_turn_unchecked(state, speech, st, st2, now) == voice_router(state, speech, st2)

voice_turn(state, speech, st, st2, now) ==
    IF closed_check(st, now)
    THEN Turn(<<>>, Doc(<<Msg("greet_closed")>>, FALSE))
    ELSE voice_router(state, speech, st2)

---------------------------------------------------------------------------
(* Runtime status (conversation_flow.py): the same rule on the same key    *)

_ovr_load(rok) ==
    IF ~rok \/ ~Live(ovr, clock)
    THEN DEFAULT_OVERRIDES
    ELSE [k \in DOMAIN DEFAULT_OVERRIDES |-> Get(ovr.val, k, DEFAULT_OVERRIDES[k])]

runtime_status(now, ov) ==
    LET au == _auto(now)
        mode == IF ov.is_open_override = "open" THEN "open"
                ELSE IF ov.is_open_override = "closed" THEN "closed"
                ELSE au.mode
    IN  [now |-> au.now,
         mode |-> mode,
         delivery_enabled |-> IF mode = "closed" THEN FALSE
                              ELSE (ov.delivery_enabled \/ au.delivery_window),
         bot_enabled |-> ov.bot_enabled,
         pasta_available |-> ov.pasta_available,
         delay_pasta_minutes |-> ov.delay_pasta_minutes,
         delay_schotels_minutes |-> ov.delay_schotels_minutes]

---------------------------------------------------------------------------
(* Text normalisation and parser of conversation_flow.py                   *)

\* _norm_txt on ASCII text, where the accent and curly-quote steps change
\* nothing: lower case, every character outside [a-z0-9\s\-&] becomes a
\* space, runs of spaces become one, the ends are stripped.
IsNormChar(c) == IsLower(c) \/ IsDigit(c) \/ IsSpace(c) \/ c = "-" \/ c = "&"

_norm_txt(s) ==
    LET low == strip(lower(s))
        kept == [i \in DOMAIN low |-> IF IsNormChar(low[i]) THEN low[i] ELSE " "]
    IN  strip(collapse_spaces(kept))

\* str.replace(old, new): leftmost occurrences, not overlapping
RECURSIVE replace(_, _, _)
replace(s, old, new) ==
    IF Len(s) < Len(old) THEN s
    ELSE IF SubSeq(s, 1, Len(old)) = old
         THEN new \o replace(SubSeq(s, Len(old) + 1, Len(s)), old, new)
         ELSE <<s[1]>> \o replace(Tail(s), old, new)

\* The two replacements that can match normalised text.
_hawai_norm(s) == replace(replace(s, <<"h", "a", "w", "a", "i", "i">>, <<"h", "a", "w", "a", "i">>), <<"h", "a", "w", "a", " ", "i">>, <<"h", "a", "w", "a", "i">>)

MENU ==
    LET valid == SelectSeq(MenuCatalogue, LAMBDA it : it.name # <<>> /\ it.price > 0)
    IN  [i \in DOMAIN valid |->
            [code |-> valid[i].code, name |-> valid[i].name, price |-> valid[i].price,
             norm |-> _norm_txt(valid[i].name),
             tokens |-> SelectSeq(split(_norm_txt(valid[i].name)), LAMBDA t : Len(t) >= 3)]]

NUMWORDS ==
    [w \in {<<"e", "e", "n">>, <<"t", "w", "e", "e">>, <<"d", "r", "i", "e">>, <<"v", "i", "e", "r">>, <<"v", "i", "j", "f">>, <<"z", "e", "s">>, <<"z", "e", "v", "e", "n">>, <<"a", "c", "h", "t">>,
            <<"n", "e", "g", "e", "n">>, <<"t", "i", "e", "n">>} |->
        CASE w = <<"e", "e", "n">> -> 1 [] w = <<"t", "w", "e", "e">> -> 2 [] w = <<"d", "r", "i", "e">> -> 3 [] w = <<"v", "i", "e", "r">> -> 4
          [] w = <<"v", "i", "j", "f">> -> 5 [] w = <<"z", "e", "s">> -> 6 [] w = <<"z", "e", "v", "e", "n">> -> 7 [] w = <<"a", "c", "h", "t">> -> 8
          [] w = <<"n", "e", "g", "e", "n">> -> 9 [] w = <<"t", "i", "e", "n">> -> 10]

\* NUMWORDS.get(w): 0 for None, which the caller treats alike
_num_from_word(w) == IF w \in DOMAIN NUMWORDS THEN NUMWORDS[w] ELSE 0

\* The separators of _split_phrases that can match single-spaced text
\* without commas, in the order of the alternation (" en dan " never wins
\* over " en ").
PhraseSeparators == <<<<" ", "e", "n", " ">>, <<" ", "p", "l", "u", "s", " ">>, <<" ", "&", " ">>>>

RECURSIVE split_from(_, _, _)
split_from(txt, start, i) ==
    IF i > Len(txt) THEN <<SubSeq(txt, start, Len(txt))>>
    ELSE LET hits == {n \in DOMAIN PhraseSeparators :
                        IsPrefix(PhraseSeparators[n], SubSeq(txt, i, Len(txt)))}
         IN  IF hits = {} THEN split_from(txt, start, i + 1)
             ELSE LET sep == PhraseSeparators[CHOOSE n \in hits : \A m \in hits : n <= m]
                  IN  <<SubSeq(txt, start, i - 1)>>
                          \o split_from(txt, i + Len(sep), i + Len(sep))

_split_phrases(txt) == SelectSeq(split_from(txt, 1, 1), LAMBDA p : p # <<>>)

\* The number of distinct tokens of the item among the tokens of the segment
TokenOverlap(it, segtoks) == Cardinality(Range(it.tokens) \cap Range(segtoks))

\* The least element of a set of indices, 0 for the empty set.
FirstOf(S) == IF S = {} THEN 0 ELSE CHOOSE k \in S : \A j \in S : k <= j

\* Step 1 of _match_menu_segment: the first item whose name contains the
\* segment or is contained in it.
match_direct(seg) ==
    FirstOf({k \in DOMAIN MENU :
                \/ IsSub(_hawai_norm(MENU[k].norm), seg)
                \/ IsSub(seg, _hawai_norm(MENU[k].norm))})

\* Step 2: the first of the items that share the most tokens with the
\* segment, if they share one at least.
match_tokens(segtoks) ==
    FirstOf({k \in DOMAIN MENU :
                /\ TokenOverlap(MENU[k], segtoks) >= 1
                /\ \A j \in DOMAIN MENU :
                      TokenOverlap(MENU[j], segtoks) <= TokenOverlap(MENU[k], segtoks)})

match_normalised(seg) ==
    IF seg = <<>> THEN 0
    ELSE IF match_direct(seg) # 0 THEN match_direct(seg)
    ELSE match_tokens(SelectSeq(split(seg), LAMBDA t : Len(t) >= 3))

\* The index in MENU of the item a segment names, 0 for None.
_match_menu_segment(seg) == match_normalised(_hawai_norm(_norm_txt(seg)))

\* re.match(r"^((\d+)|([a-z]+))\s+(.+)$", p) on a phrase: the first word is
\* all digits or all letters and something follows it.
qty_match(p) ==
    LET e == IF p # <<>> /\ IsDigit(p[1]) THEN RunEnd(p, 1, IsDigit)
             ELSE IF p # <<>> /\ IsLower(p[1]) THEN RunEnd(p, 1, IsLower)
             ELSE 0
        sp == IF e > 0 /\ e < Len(p) /\ IsSpace(p[e + 1]) THEN RunEnd(p, e + 1, IsSpace) ELSE 0
    IN  IF sp > 0 /\ sp < Len(p)
        THEN [matched |-> TRUE,
              qty |-> IF IsDigit(p[1]) THEN int_of(SubSeq(p, 1, e))
                      ELSE _num_from_word(SubSeq(p, 1, e)),
              tail |-> SubSeq(p, sp + 1, Len(p))]
        ELSE [matched |-> FALSE]

\* Loop 1 of _parse_items: the phrases that start with a quantity.
RECURSIVE parse_counted(_, _, _)
parse_counted(parts, used, res) ==
    LET add(m, hit) ==
            IF hit # 0 /\ MENU[hit].norm \notin used
            THEN parse_counted(Tail(parts), used \cup {MENU[hit].norm},
                               Append(res, Item(MENU[hit], Max(1, m.qty))))
            ELSE parse_counted(Tail(parts), used, res)
        find(m) == add(m, IF m.matched /\ m.qty # 0 THEN _match_menu_segment(m.tail) ELSE 0)
    IN  IF parts = <<>> THEN res ELSE find(qty_match(Head(parts)))

\* Loop 2 of _parse_items: every phrase that names an item, one of each.
RECURSIVE parse_single(_)
parse_single(parts) ==
    LET add(hit) == IF hit # 0 THEN <<Item(MENU[hit], 1)>> ELSE <<>>
    IN  IF parts = <<>> THEN <<>>
        ELSE add(_match_menu_segment(Head(parts))) \o parse_single(Tail(parts))

parse_parts(parts) ==
    LET counted_or_single(res) == IF res # <<>> THEN res ELSE parse_single(parts)
    IN  counted_or_single(parse_counted(parts, {}, <<>>))

_parse_items(utt) == parse_parts(_split_phrases(_hawai_norm(_norm_txt(utt))))

NormTexts == [t \in {lower(strip(u)) : u \in Spoken} |-> _norm_txt(t)]

ParsedItems == [t \in {_norm_txt(lower(strip(u))) : u \in Spoken} |-> _parse_items(t)]

\* re.search(r"\bpizza?s?\b", s)
search_pizza(s) ==
    \E w \in {<<"p", "i", "z", "z">>, <<"p", "i", "z", "z", "a">>, <<"p", "i", "z", "z", "s">>, <<"p", "i", "z", "z", "a", "s">>} :
        \E i \in 1..(Len(s) - Len(w) + 1) :
            /\ SubSeq(s, i, i + Len(w) - 1) = w
            /\ WordBoundary(s, i)
            /\ WordBoundary(s, i + Len(w))

RECURSIVE _total(_)
_total(items) ==
    IF items = <<>> THEN 0
    ELSE Head(items).qty * Head(items).price + _total(Tail(items))

\* int(round(x)) of an amount in cents: whole euros, a half to the even one
round_euros(cents) ==
    LET q == cents \div 100
        r == cents % 100
    IN  IF r < 50 THEN q
        ELSE IF r > 50 THEN q + 1
        ELSE IF q % 2 = 0 THEN q ELSE q + 1

---------------------------------------------------------------------------
(* FlowManager (conversation_flow.py)                                      *)

CALL_TTL == 2 * 3600

\* A variant that keeps one session for all calls.
_getc_one_key(sid, rok) ==
    LET key == CHOOSE k \in DOMAIN calls : TRUE
    IN  IF rok /\ Live(calls[key], clock) THEN calls[key].val ELSE DefaultCall

_getc(sid, rok) ==
    IF rok /\ Live(calls[sid], clock) THEN calls[sid].val ELSE DefaultCall

\* A variant that sets the expiry only when the key is created.
_savec_keeps_expiry(entry, data, wok) ==
    IF wok
    THEN [present |-> TRUE, val |-> data,
          expires_at |-> IF Live(entry, clock) THEN entry.expires_at ELSE clock + CALL_TTL]
    ELSE entry

\* A variant that loses the key when the write fails.
_savec_drops_on_failure(entry, data, wok) ==
    IF wok
    THEN [present |-> TRUE, val |-> data, expires_at |-> clock + CALL_TTL]
    ELSE NoKey

_savec(entry, data, wok) ==
    IF wok
    THEN [present |-> TRUE, val |-> data, expires_at |-> clock + CALL_TTL]
    ELSE entry

RECURSIVE savec_all(_, _, _)
savec_all(entry, writes, woks) ==
    IF writes = <<>> THEN entry
    ELSE savec_all(_savec(entry, Head(writes), Head(woks)), Tail(writes), Tail(woks))

Reply(messages, next) == [messages |-> messages, next |-> next]

\* A variant that saves the session without the move to the next state.
out_in_place(s, msgs, nxt) == Turn(<<s>>, Reply(msgs, nxt))

\* out(msgs, nxt): the session is saved in the next state
out(s, msgs, nxt) == Turn(<<[s EXCEPT !.state = nxt]>>, Reply(msgs, nxt))

\* A variant whose second save does not have the items of the first.
add_items_then_forget(s, items) ==
    LET s1 == [s EXCEPT !.items = @ \o items]
        nxt == out(s, <<item_added(items), Msg("ask_items_more")>>, "confirm_more")
    IN  Turn(<<s1>> \o nxt.writes, nxt.resp)

\* The items are added and saved, then the session moves to confirm_more.
add_items(s, items) ==
    LET s1 == [s EXCEPT !.items = @ \o items]
        nxt == out(s1, <<item_added(items), Msg("ask_items_more")>>, "confirm_more")
    IN  Turn(<<s1>> \o nxt.writes, nxt.resp)

\* The closing messages of a delivery: ready time and the total with the fee
delivery_end(s, st) ==
    LET mins == _eta_minutes("delivery", st.delay_pasta_minutes, st.delay_schotels_minutes)
        ready == ready_time(st.now, mins)
        tot == round_euros(_total(s.items) + _delivery_fee(Get(s.customer, "postcode", <<>>)))
    IN  Reply(<<[key |-> "delivery_eta", time |-> ready],
                [key |-> "total_after_confirm", amount |-> tot],
                Msg("closing_delivery")>>, "end")

flow_ask_items(s, utt_norm) ==
    LET items == Memo(ParsedItems, _parse_items, utt_norm)
    IN  IF items = <<>> /\ search_pizza(utt_norm)
        THEN out(s, <<Msg("ask_pizza_which")>>, "ask_items")
        ELSE IF items # <<>> THEN add_items(s, items)
        ELSE out(s, <<Msg("ask_items")>>, "ask_items")

\* A variant that goes on to fulfilment without the summary.
flow_confirm_more_skips_summary(s, utt_norm) ==
    out(s, <<Msg("ask_fulfilment")>>, "fulfilment")

flow_confirm_more(s, utt_norm) ==
    IF AnySub({<<"j", "a">>, <<"n", "o", "g">>, <<"m", "e", "e", "r">>, <<"t", "o", "e", "v", "o", "e", "g", "e", "n">>}, utt_norm)
    THEN out(s, <<Msg("ask_items")>>, "ask_items")
    ELSE IF AnySub({<<"n", "e", "e">>, <<"d", "a", "t", " ", "i", "s", " ", "a", "l", "l", "e", "s">>, <<"k", "l", "a", "a", "r">>, <<"n", "i", "e", "t", "s">>}, utt_norm)
         THEN LET s1 == [s EXCEPT !.total = _total(s.items)]
                  nxt == out(s1, <<[key |-> "confirm_items", items |-> s.items],
                                   Msg("ask_items_confirm_ok")>>, "confirm_summary")
              IN  Turn(<<s1>> \o nxt.writes, nxt.resp)
         ELSE LET items == Memo(ParsedItems, _parse_items, utt_norm)
              IN  IF items # <<>> THEN add_items(s, items)
                  ELSE out(s, <<Msg("ask_items_more")>>, "confirm_more")

flow_confirm_summary(s, utt_norm) ==
    IF AnySub({<<"j", "a">>, <<"k", "l", "o", "p", "t">>, <<"c", "o", "r", "r", "e", "c", "t">>}, utt_norm)
    THEN out(s, <<[key |-> "total_after_confirm", amount |-> round_euros(s.total)],
                  Msg("ask_fulfilment")>>, "fulfilment")
    ELSE IF AnySub({<<"n", "e", "e">>, <<"k", "l", "o", "p", "t", " ", "n", "i", "e", "t">>, <<"a", "n", "d", "e", "r", "s">>}, utt_norm)
         THEN out(s, <<Msg("ask_items")>>, "ask_items")
         ELSE out(s, <<Msg("ask_items_confirm_ok")>>, "confirm_summary")

flow_fulfilment(s, utt_norm, st) ==
    IF AnySub({<<"a", "f", "h", "a", "a", "l">>, <<"a", "f", "h", "a", "l", "e", "n">>, <<"o", "p", "h", "a", "l", "e", "n">>}, utt_norm)
    THEN LET mins == _eta_minutes("pickup", st.delay_pasta_minutes, st.delay_schotels_minutes)
         IN  Turn(<<>>, Reply(<<[key |-> "pickup_eta", time |-> ready_time(st.now, mins)],
                                Msg("closing_pickup")>>, "end"))
    ELSE IF AnySub({<<"b", "e", "z", "o", "r", "g">>, <<"b", "e", "z", "o", "r", "g", "e", "n">>, <<"t", "h", "u", "i", "s">>}, utt_norm)
         THEN out(s, <<Msg("ask_phone_for_delivery")>>, "phone")
         ELSE out(s, <<Msg("ask_fulfilment")>>, "fulfilment")

flow_phone(s, utt) ==
    LET tel == digits_of(utt)
        s1 == [s EXCEPT !.customer = Put(@, "tel", tel)]
        found == crm_found(tel)
    IN  IF found # None /\ (found.straat # <<>> \/ found.postcode # <<>>)
        THEN LET s2 == [s1 EXCEPT !.customer =
                            [k \in DOMAIN @ \cup DOMAIN found |->
                                IF k \in DOMAIN found THEN found[k] ELSE @[k]]]
                 nxt == out(s2, <<confirm_lookup_found(found)>>, "crm_confirm")
             IN  Turn(<<s2>> \o nxt.writes, nxt.resp)
        ELSE out(s1, <<Msg("confirm_lookup_missing")>>, "address")

flow_crm_confirm(s, utt_norm, st) ==
    IF AnySub({<<"j", "a">>, <<"k", "l", "o", "p", "t">>, <<"c", "o", "r", "r", "e", "c", "t">>}, utt_norm)
    THEN Turn(<<>>, delivery_end(s, st))
    ELSE IF AnySub({<<"n", "e", "e">>, <<"k", "l", "o", "p", "t", " ", "n", "i", "e", "t">>, <<"a", "n", "d", "e", "r", "s">>}, utt_norm)
         THEN out(s, <<Msg("confirm_lookup_missing")>>, "address")
         ELSE out(s, <<confirm_lookup_found(s.customer)>>, "crm_confirm")

flow_address(s, utt, st) ==
    LET pc == Memo(Postcodes, search_postcode, utt)
        hn == Memo(HouseNumbers, search_house_number, utt)
        c1 == IF pc # <<>> THEN Put(s.customer, "postcode", upper(without_spaces(pc)))
              ELSE s.customer
        c2 == IF hn # <<>> THEN Put(c1, "huisnr", hn) ELSE c1
        s1 == [s EXCEPT !.customer = c2]
    IN  IF Get(c2, "postcode", <<>>) # <<>> /\ Get(c2, "huisnr", <<>>) # <<>>
        THEN Turn(<<s1>>, delivery_end(s1, st))
        ELSE LET nxt == out(s1, <<Msg("ask_postcode_house")>>, "address")
             IN  Turn(<<s1>> \o nxt.writes, nxt.resp)

\* handle_utterance after the session is read and the speech normalised:
\* st is the runtime status the closing branches evaluate.
handle_turn(s, utt, utt_norm, st) ==
        IF s.state = "greet" THEN out(s, <<Msg("ask_items")>>, "ask_items")
        ELSE IF AnySub({<<"i", "k", " ", "w", "i", "l", " ", "b", "e", "s", "t", "e", "l", "l", "e", "n">>, <<"b", "e", "s", "t", "e", "l", "l", "i", "n", "g", " ", "p", "l", "a", "a", "t", "s", "e", "n">>, <<"m", "a", "g", " ", "i", "k", " ", "w", "a", "t", " ", "b", "e", "s", "t", "e", "l", "l", "e", "n">>}, utt_norm)
             THEN out(s, <<Msg("reply_start_order")>>, "ask_items")
        ELSE IF s.state \in {"ask_items", "collecting"} THEN flow_ask_items(s, utt_norm)
        ELSE IF s.state = "confirm_more" THEN flow_confirm_more(s, utt_norm)
        ELSE IF s.state = "confirm_summary" THEN flow_confirm_summary(s, utt_norm)
        ELSE IF s.state = "fulfilment" THEN flow_fulfilment(s, utt_norm, st)
        ELSE IF s.state = "phone" THEN flow_phone(s, utt)
        ELSE IF s.state = "crm_confirm" THEN flow_crm_confirm(s, utt_norm, st)
        ELSE IF s.state = "address" THEN flow_address(s, utt, st)
        ELSE Turn(<<>>, Reply(<<Msg("fallback1")>>, "ask_items"))

\* _ovr_save: both delays snapped to the nearest allowed value, the default
\* keys kept, the record set with ex=OVR_TTL*60 or the failure swallowed.
OVR_TTL == 180

ovr_save_body(body) ==
    LET b1 == Put(body, "delay_pasta_minutes", _norm(Get(body, "delay_pasta_minutes", 0)))
        b2 == Put(b1, "delay_schotels_minutes", _norm(Get(body, "delay_schotels_minutes", 0)))
    IN  [k \in DOMAIN DEFAULT_OVERRIDES |-> Get(b2, k, DEFAULT_OVERRIDES[k])]

_ovr_save(body, wok) ==
    IF wok
    THEN [present |-> TRUE, val |-> ovr_save_body(body),
          expires_at |-> clock + OVR_TTL * 60, written_at |-> clock, req |-> body]
    ELSE ovr

---------------------------------------------------------------------------
(* Endpoints of app.py: the voice webhooks                                 *)

MaxItems == 2

voice_incoming(rok) ==
    /\ http.ep = "idle"
    /\ LET st == evaluate_status(clock, load_overrides(rok))
       IN  http' = [ep |-> "voice_incoming", seen |-> st,
                    resp |-> Doc(<<Msg(_greeting_by_status(st, clock))>>, TRUE)]
    /\ UNCHANGED <<clock, ovr, calls, orders>>

voice_step ==
    /\ http.ep = "idle"
    /\ http' = [ep |-> "voice_step",
                resp |-> [code |-> 200, gather |-> "voice_handle",
                          plays |-> <<Msg("say_prompt")>>, redirect |-> TRUE]]
    /\ UNCHANGED <<clock, ovr, calls, orders>>

\* rok: the read of the session; rok_st: the read of the overrides by the
\* closed check. The read of the overrides by the eta state and each write
\* of the session succeed or fail on their own.
voice_handle(call_sid, form_speech, rok, rok_st) ==
    /\ http.ep = "idle"
    /\ \E speech \in {strip(form_speech)}, state \in {_get_call(call_sid, rok)},
          st \in {evaluate_status(clock, load_overrides(rok_st))} :
        \E rok_st2 \in IF state.state = "eta" /\ ~closed_check(st, clock)
                       THEN BOOLEAN ELSE {TRUE} :
          \E turn \in {voice_turn(state, speech, st,
                                  evaluate_status(clock, load_overrides(rok_st2)), clock)} :
            /\ \A i \in DOMAIN turn.writes : Len(turn.writes[i].items) <= MaxItems
            /\ \E woks \in [DOMAIN turn.writes -> BOOLEAN] :
                 calls' = [calls EXCEPT ![call_sid] = save_all(@, turn.writes, woks)]
            /\ http' = [ep |-> "voice_handle", sid |-> call_sid, session_read |-> TRUE,
                        from_state |-> state.state, seen |-> st, resp |-> turn.resp]
    /\ UNCHANGED <<clock, ovr, orders>>

---------------------------------------------------------------------------
(* Entry points of conversation_flow.py                                    *)

\* rok: the read of the session. The read of the overrides by
\* runtime_status, in the states whose closing branches call it, and each
\* write of the session succeed or fail on their own.
handle_utterance(sid, speech, rok) ==
    /\ http.ep = "idle"
    /\ \E s \in {_getc(sid, rok)}, utt \in {lower(strip(speech))} :
        \E utt_norm \in {Memo(NormTexts, _norm_txt, utt)},
           rok_st \in IF s.state \in {"fulfilment", "crm_confirm", "address"}
                      THEN BOOLEAN ELSE {TRUE} :
          \E turn \in {handle_turn(s, utt, utt_norm,
                                   runtime_status(clock, _ovr_load(rok_st)))} :
            /\ \A i \in DOMAIN turn.writes : Len(turn.writes[i].items) <= MaxItems
            /\ \E woks \in [DOMAIN turn.writes -> BOOLEAN] :
                 /\ calls' = [calls EXCEPT ![sid] = savec_all(@, turn.writes, woks)]
                 /\ http' = [ep |-> "handle_utterance", sid |-> sid, utt |-> utt,
                             read_ok |-> rok, status_read_ok |-> rok_st, session |-> s,
                             writes |-> turn.writes,
                             woks |-> woks, resp |-> turn.resp]
    /\ UNCHANGED <<clock, ovr, orders>>

save_overrides_api(body, wok) ==
    /\ http.ep = "idle"
    /\ ovr' = _ovr_save(body, wok)
    /\ http' = [ep |-> "save_overrides_api", req |-> body,
                resp |-> [code |-> 200, ok |-> TRUE, saved |-> ovr_save_body(body),
                          ttl_minutes |-> OVR_TTL]]
    /\ UNCHANGED <<clock, calls, orders>>

---------------------------------------------------------------------------
(* POST /order/submit (app.py): the order sink                             *)

ORDER_TTL_SEC == 7 * 24 * 3600

NoOrders == [issued |-> 0, index |-> {}, keys |-> {}, log |-> <<>>]

MaxOrders == 2

\* order_id is a fresh uuid: the number of the ids issued so far stands for
\* it.  redis: how far the store writes got before an exception ("none",
\* "index": hset done and set failed, "all"); logged: the append to the log.
order_submit(payload, redis, logged) ==
    /\ http.ep = "idle"
    /\ orders.issued < MaxOrders
    /\ IF payload = BadJSON
       THEN /\ http' = [ep |-> "order_submit", req |-> payload,
                        resp |-> [code |-> 400, detail |-> "Invalid JSON"]]
            /\ UNCHANGED orders
       ELSE LET order_id == orders.issued + 1
                order == [payload |-> payload, order_id |-> order_id, created_at |-> clock]
            IN  /\ orders' =
                     [issued |-> order_id,
                      index |-> IF redis \in {"index", "all"}
                                THEN orders.index \cup {[order_id |-> order_id, created_at |-> clock]}
                                ELSE orders.index,
                      keys |-> IF redis = "all"
                               THEN orders.keys \cup
                                      {[order_id |-> order_id, val |-> order,
                                        expires_at |-> clock + ORDER_TTL_SEC]}
                               ELSE orders.keys,
                      log |-> IF logged THEN Append(orders.log, order) ELSE orders.log]
                /\ http' = [ep |-> "order_submit", req |-> payload,
                            resp |-> [code |-> 200, ok |-> TRUE, order_id |-> order_id]]
    /\ UNCHANGED <<clock, ovr, calls>>

---------------------------------------------------------------------------
(* Environment                                                             *)

\* The store drops the keys whose expiry time has been reached.
Expire(entry, now) == IF Live(entry, now) THEN entry ELSE NoKey

Tick(t) ==
    /\ http.ep = "idle"
    /\ t > clock
    /\ clock' = t
    /\ ovr' = Expire(ovr, t)
    /\ calls' = [sid \in DOMAIN calls |-> Expire(calls[sid], t)]
    /\ orders' = [orders EXCEPT !.keys = {o \in @ : t < o.expires_at}]
    /\ UNCHANGED http

\* The response of the exchange is delivered.
Deliver ==
    /\ http.ep # "idle"
    /\ http' = [ep |-> "idle"]
    /\ UNCHANGED <<clock, ovr, calls, orders>>

---------------------------------------------------------------------------
(* Inputs                                                                  *)

CallSids == {"CA1"}

\* The request bodies: those of the scenarios (kitchen closed for 30
\* minutes, an invalid delay, forced open), the toggles, the delays with a
\* requested TTL, and a body that is not JSON.
AdminBodies ==
    {[kitchen_closed |-> TRUE, ttl_minutes |-> 30],
     [delay_pasta_minutes |-> 17],
     [is_open_override |-> "open"],
     BadJSON}
    \cup {[bot_enabled |-> b, kitchen_closed |-> kc, is_open_override |-> iso,
           delivery_enabled |-> de] :
             b \in BOOLEAN, kc \in BOOLEAN, iso \in {"auto", "open", "closed", "dicht"},
             de \in BOOLEAN}
    \cup {[pasta_available |-> pa, delay_pasta_minutes |-> dp,
           delay_schotels_minutes |-> ds, ttl_minutes |-> ttl] :
             pa \in BOOLEAN, dp \in {0, 25, 60}, ds \in {0, 45}, ttl \in {30, 180}}

---------------------------------------------------------------------------
(* The operator's service: admin toggles and the runtime status            *)

Init ==
    /\ clock \in Instants
    /\ ovr = NoKey
    /\ calls = [sid \in CallSids |-> NoKey]
    /\ orders = NoOrders
    /\ http = [ep |-> "idle"]

Next ==
    \/ \E body \in AdminBodies, fail \in BOOLEAN : admin_toggles(body, ~fail)
    \/ \E t \in Instants : Tick(t)
    \/ Deliver

Spec == Init /\ [][Next]_vars

---------------------------------------------------------------------------
(* The voice service: a call over the webhooks of app.py                   *)

\* An evening of ordering, two hours later, closing time.
VoiceInstants == {HMS(19, 0, 0), HMS(21, 0, 0), HMS(22, 0, 0)}

VoiceBodies ==
    {[bot_enabled |-> FALSE],
     [is_open_override |-> "closed", delay_pasta_minutes |-> 20]}

InitVoice ==
    /\ clock \in VoiceInstants
    /\ ovr = NoKey
    /\ calls = [sid \in CallSids |-> NoKey]
    /\ orders = NoOrders
    /\ http = [ep |-> "idle"]

NextVoice ==
    \/ \E rok \in BOOLEAN : voice_incoming(rok)
    \/ voice_step
    \/ \E call_sid \in CallSids, speech \in VoiceUtterances, fail \in BOOLEAN,
          fail_st \in BOOLEAN :
            voice_handle(call_sid, speech, ~fail, ~fail_st)
    \/ \E body \in VoiceBodies, fail \in BOOLEAN : admin_toggles(body, ~fail)
    \/ \E t \in VoiceInstants : Tick(t)
    \/ Deliver

SpecVoice == InitVoice /\ [][NextVoice]_vars

---------------------------------------------------------------------------
(* The dialogue service: turns through FlowManager                         *)

\* An evening: a turn, the last second of the two hours after it, and the
\* second that ends them.
FlowInstants == {HMS(19, 0, 0), HMS(20, 59, 59), HMS(21, 0, 0)}

FlowBodies == {[delay_pasta_minutes |-> 17, is_open_override |-> "closed"]}

InitFlow ==
    /\ clock \in FlowInstants
    /\ ovr = NoKey
    /\ calls = [sid \in CallSids |-> NoKey]
    /\ orders = NoOrders
    /\ http = [ep |-> "idle"]

NextFlow ==
    \/ \E sid \in CallSids, speech \in FlowUtterances, fail \in BOOLEAN :
            handle_utterance(sid, speech, ~fail)
    \/ \E body \in FlowBodies, fail \in BOOLEAN : save_overrides_api(body, ~fail)
    \/ \E t \in FlowInstants : Tick(t)
    \/ Deliver

SpecFlow == InitFlow /\ [][NextFlow]_vars

---------------------------------------------------------------------------
(* Two calls at once: turns of both services, interleaved in any order     *)

\* What it takes to order and to pick up.
PickupUtterances ==
    {<<>>, <<"0", " ", "s", "a", "l", "a", "m", "i">>, <<"n", "e", "e">>, <<"j", "a">>, <<"a", "f", "h", "a", "l", "e", "n">>, <<"c", "o", "n", "t", "a", "n", "t">>}

InitCalls ==
    /\ clock = HMS(19, 0, 0)
    /\ ovr = NoKey
    /\ calls = [sid \in {"CA1", "CA2"} |-> NoKey]
    /\ orders = NoOrders
    /\ http = [ep |-> "idle"]

NextCalls ==
    \/ \E sid \in DOMAIN calls, speech \in PickupUtterances, fail \in BOOLEAN :
            handle_utterance(sid, speech, ~fail)
    \/ \E call_sid \in DOMAIN calls, speech \in PickupUtterances, fail \in BOOLEAN :
            voice_handle(call_sid, speech, ~fail, TRUE)
    \/ Deliver

SpecCalls == InitCalls /\ [][NextCalls]_vars

---------------------------------------------------------------------------
(* The order service: orders posted to /order/submit                       *)

OrderPayloads ==
    {[call_id |-> "CA1", total |-> 1800, fulfilment |-> "pickup"],
     [call_id |-> "CA1", total |-> 2050, fulfilment |-> "delivery"],
     BadJSON}

NextOrders ==
    \/ \E payload \in OrderPayloads, redis \in {"all", "index", "none"}, logged \in BOOLEAN :
            order_submit(payload, redis, logged)
    \/ \E t \in Instants : Tick(t)
    \/ Deliver

SpecOrders == Init /\ [][NextOrders]_vars

---------------------------------------------------------------------------
(* Two callbacks of one call in flight at once                             *)

\* handle_utterance holds no lock and checks no version: it reads the session
\* (_getc), computes on its own copy, writes the copy back with one SET per
\* _savec, and returns.  Here each of those is a step of its own, so that the
\* steps of two callbacks for the same call interleave.  http holds the
\* callbacks in flight: cb[c] is idle, running (its remaining writes and its
\* reply) or done, and last is the callback that returned last.
Callbacks == {1, 2}

OverlapUtterances ==
    {<<"t", "w", "e", "e", " ", "m", "a", "r", "g", "h", "e", "r", "i", "t", "a">>, <<"p", "i", "z", "z", "a", " ", "s", "a", "l", "a", "m", "i">>, <<"n", "e", "e">>}

\* line 308: s = _getc(call_id), and the turn computed on that copy.
handle_utterance_getc(c, sid, speech) ==
    /\ http.ep = "overlap"
    /\ http.cb[c].pc = "idle"
    /\ \E s \in {_getc(sid, TRUE)}, utt \in {lower(strip(speech))} :
        \E utt_norm \in {Memo(NormTexts, _norm_txt, utt)} :
          \E turn \in {handle_turn(s, utt, utt_norm, runtime_status(clock, _ovr_load(TRUE)))} :
            /\ \A i \in DOMAIN turn.writes : Len(turn.writes[i].items) <= MaxItems
            /\ http' = [http EXCEPT !.cb[c] = [pc |-> "running", sid |-> sid, session |-> s,
                                               writes |-> turn.writes, resp |-> turn.resp]]
    /\ UNCHANGED <<clock, ovr, calls, orders>>

\* The next _savec of a running callback: one SET of its own copy.
handle_utterance_savec(c) ==
    /\ http.ep = "overlap"
    /\ http.cb[c].pc = "running"
    /\ http.cb[c].writes # <<>>
    /\ calls' = [calls EXCEPT ![http.cb[c].sid] = _savec(@, Head(http.cb[c].writes), TRUE)]
    /\ http' = [http EXCEPT !.cb[c].writes = Tail(@)]
    /\ UNCHANGED <<clock, ovr, orders>>

\* The callback returns its reply once all its writes are done.
handle_utterance_return(c) ==
    /\ http.ep = "overlap"
    /\ http.cb[c].pc = "running"
    /\ http.cb[c].writes = <<>>
    /\ http' = [http EXCEPT !.cb[c].pc = "done", !.last = c]
    /\ UNCHANGED <<clock, ovr, calls, orders>>

\* The provider has the replies and the caller speaks again.
DeliverOverlap ==
    /\ http.ep = "overlap"
    /\ \A c \in Callbacks : http.cb[c].pc \in {"idle", "done"}
    /\ \E c \in Callbacks : http.cb[c].pc = "done"
    /\ http' = [http EXCEPT !.cb = [c \in Callbacks |-> [pc |-> "idle"]], !.last = 0]
    /\ UNCHANGED <<clock, ovr, calls, orders>>

InitOverlap ==
    /\ clock = HMS(19, 0, 0)
    /\ ovr = NoKey
    /\ calls = [sid \in CallSids |-> NoKey]
    /\ orders = NoOrders
    /\ http = [ep |-> "overlap", cb |-> [c \in Callbacks |-> [pc |-> "idle"]], last |-> 0]

NextOverlap ==
    \/ \E c \in Callbacks, sid \in CallSids, speech \in OverlapUtterances :
            handle_utterance_getc(c, sid, speech)
    \/ \E c \in Callbacks : handle_utterance_savec(c)
    \/ \E c \in Callbacks : handle_utterance_return(c)
    \/ DeliverOverlap

SpecOverlap == InitOverlap /\ [][NextOverlap]_vars

---------------------------------------------------------------------------
(* A caller who ends up answering what is asked                            *)

\* Until CooperativeFrom the caller says anything and the store may fail;
\* from then on the store is available and the caller gives, in every state,
\* an answer that the state recognises.
CooperativeFrom == HMS(19, 30, 0)

CallerUtterances ==
    {<<>>,
     <<"t", "w", "e", "e", " ", "m", "a", "r", "g", "h", "e", "r", "i", "t", "a">>,
     <<"n", "e", "e">>,
     <<"j", "a">>,
     <<"a", "f", "h", "a", "l", "e", "n">>,
     <<"b", "e", "z", "o", "r", "g", "e", "n">>,
     <<"0", "6", "1", "2", "3", "4", "5", "6", "7", "8">>,
     <<"1", "2", "3", "4", " ", "A", "B", " ", "5">>,
     <<"i", "k", " ", "w", "i", "l", " ", "b", "e", "s", "t", "e", "l", "l", "e", "n">>}

\* The answers a state recognises (the keywords and patterns of its branch).
Recognised(state) ==
    IF state = "greet" THEN {<<>>}
    ELSE IF state \in {"ask_items", "collecting"} THEN {<<"t", "w", "e", "e", " ", "m", "a", "r", "g", "h", "e", "r", "i", "t", "a">>}
    ELSE IF state = "confirm_more" THEN {<<"n", "e", "e">>}
    ELSE IF state = "confirm_summary" THEN {<<"j", "a">>}
    ELSE IF state = "fulfilment" THEN {<<"a", "f", "h", "a", "l", "e", "n">>, <<"b", "e", "z", "o", "r", "g", "e", "n">>}
    ELSE IF state = "phone" THEN {<<"0", "6", "1", "2", "3", "4", "5", "6", "7", "8">>}
    ELSE IF state = "crm_confirm" THEN {<<"j", "a">>, <<"n", "e", "e">>}
    ELSE IF state = "address" THEN {<<"1", "2", "3", "4", " ", "A", "B", " ", "5">>}
    ELSE {}

\* A turn.  Before CooperativeFrom anything is said and the read and the
\* writes may fail; from CooperativeFrom on the answer is one the stored state
\* recognises and every read and write of the turn succeeds.
CallerTurn ==
    \E sid \in CallSids, speech \in CallerUtterances, fail \in BOOLEAN :
        /\ handle_utterance(sid, speech, ~fail)
        /\ clock = CooperativeFrom
            => /\ ~fail
               /\ speech \in Recognised(_getc(sid, TRUE).state)
               /\ http'.status_read_ok
               /\ \A i \in DOMAIN http'.woks : http'.woks[i]

\* The caller starts to cooperate; the item the caller may still have to
\* name fits the basket.
Cooperate ==
    /\ \A sid \in CallSids :
            _getc(sid, TRUE).state \in {"greet", "ask_items"}
                => Len(_getc(sid, TRUE).items) < MaxItems
    /\ Tick(CooperativeFrom)

InitCaller ==
    /\ clock = HMS(19, 0, 0)
    /\ ovr = NoKey
    /\ calls = [sid \in CallSids |-> NoKey]
    /\ orders = NoOrders
    /\ http = [ep |-> "idle"]

NextCaller ==
    \/ CallerTurn
    \/ Cooperate
    \/ Deliver

\* The provider posts the callback of every answer and the server answers
\* every request.
SpecCaller == InitCaller /\ [][NextCaller]_vars /\ WF_vars(CallerTurn) /\ WF_vars(Deliver)

---------------------------------------------------------------------------
(* Claims about the runtime status and the overrides                       *)

\* The status a request evaluates now, its read of the overrides succeeding
\* (rok) or failing.
StatusNow(rok) == evaluate_status(clock, load_overrides(rok))

InOpeningHours == OPEN_START <= TimeOfDay(clock) /\ TimeOfDay(clock) < OPEN_END

InDeliveryHours == DEL_START <= TimeOfDay(clock) /\ TimeOfDay(clock) < DEL_END

OverridesStored == Live(ovr, clock)

\* C3: the overrides record written by a request with kitchen_closed=true
\* gives, while it is stored, mode=closed and delivery off (the status has no
\* separate pickup flag: pickup is offered whenever the mode is open).
C3_KitchenClosedCloses ==
    (OverridesStored /\ Get(ovr.req, "kitchen_closed", FALSE))
        => (StatusNow(TRUE).mode = "closed" /\ ~StatusNow(TRUE).delivery_enabled)

\* C4: an admin POST whose delay_pasta_minutes is not an allowed value is
\* answered 4xx and leaves the stored overrides as they were.
C4_InvalidDelayRejected ==
    [][(http.ep = "idle" /\ http'.ep = "admin_toggles" /\ http'.req # BadJSON
          /\ \A i \in DOMAIN allowed : Get(http'.req, "delay_pasta_minutes", 0) # allowed[i])
        => (http'.resp.code \in 400..499 /\ ovr' = ovr)]_vars

\* C5: a record written with ttl_minutes=T is read until T minutes after the
\* write and is absent from then on.
C5_ExpiresAfterRequestedTtl ==
    (ovr.present /\ "ttl_minutes" \in DOMAIN ovr.req)
        => (OverridesStored <=> clock < ovr.written_at + ovr.req.ttl_minutes * 60)

\* C7: with no overrides stored the mode is open exactly from 16:00 to 22:00
\* and delivery is on exactly from 17:00 to 21:30, the boundaries included
\* as the spec lists them.
C7_AutomaticHours ==
    ~OverridesStored =>
        \A rok \in BOOLEAN :
            LET st == StatusNow(rok) IN
            /\ st.mode = "open" <=> InOpeningHours
            /\ st.delivery_enabled <=> InDeliveryHours
            /\ TimeOfDay(clock) = HMS(15, 59, 59) => st.mode = "closed"
            /\ TimeOfDay(clock) = HMS(16, 0, 0) => st.mode = "open"
            /\ TimeOfDay(clock) = HMS(21, 29, 59) => st.delivery_enabled
            /\ TimeOfDay(clock) = HMS(21, 30, 0) => ~st.delivery_enabled
            /\ TimeOfDay(clock) = HMS(21, 59, 59) => st.mode = "open"
            /\ TimeOfDay(clock) = HMS(22, 0, 0) => st.mode = "closed"

C7_Witness ==
    /\ ~OverridesStored
    /\ TimeOfDay(clock) = HMS(21, 29, 59)
    /\ StatusNow(TRUE).mode = "open"
    /\ StatusNow(TRUE).delivery_enabled

\* C8: no evaluated status, of either service, has delivery enabled while
\* the mode is closed.
C8_NoDeliveryWhenClosed ==
    \A rok \in BOOLEAN :
        /\ ~(StatusNow(rok).delivery_enabled /\ StatusNow(rok).mode = "closed")
        /\ LET st == runtime_status(clock, _ovr_load(rok))
           IN  ~(st.delivery_enabled /\ st.mode = "closed")

C8_Witness ==
    /\ OverridesStored
    /\ ovr.val.delivery_enabled
    /\ InDeliveryHours
    /\ StatusNow(TRUE).mode = "closed"
    /\ ~StatusNow(TRUE).delivery_enabled

\* C9: a stored is_open_override of open (closed) gives mode open (closed)
\* at every time of day; forced open outside 17:00-21:30, delivery is on
\* exactly when the delivery_enabled override is set.
C9_ForcedMode ==
    OverridesStored =>
        LET st == StatusNow(TRUE) IN
        /\ ovr.val.is_open_override = "open" => st.mode = "open"
        /\ ovr.val.is_open_override = "closed" => st.mode = "closed"
        /\ (ovr.val.is_open_override = "open" /\ ~InDeliveryHours)
              => (st.delivery_enabled <=> ovr.val.delivery_enabled)

C9_Witness ==
    /\ OverridesStored
    /\ TimeOfDay(clock) = HMS(10, 0, 0)
    /\ ovr.val.is_open_override = "open"
    /\ ovr.val.delivery_enabled
    /\ StatusNow(TRUE).mode = "open"
    /\ StatusNow(TRUE).delivery_enabled

\* C10: when open, delivery is on exactly when the delivery window holds
\* and the request's delivery_enabled is true; a request with
\* delivery_enabled=false during 17:00-21:30 gives delivery off.
C10_DeliveryIsConjunction ==
    (OverridesStored /\ "delivery_enabled" \in DOMAIN ovr.req
        /\ StatusNow(TRUE).mode = "open")
        => (StatusNow(TRUE).delivery_enabled
              <=> (_auto(clock).delivery_window /\ ovr.req.delivery_enabled))

---------------------------------------------------------------------------
(* Claims about the voice webhooks                                         *)

\* An exchange of the endpoint ep is answered in this step.
Answered(ep) == http.ep = "idle" /\ http'.ep = ep

ClosedGreetingOnly == Doc(<<Msg("greet_closed")>>, FALSE)

\* C2: a handle callback whose status has mode=closed is answered with the
\* closed greeting alone, without a redirect to the step endpoint, and
\* leaves every stored session (state, items, customer) as it was.
C2_ClosedStopsDialogue ==
    [][(Answered("voice_handle") /\ http'.seen.mode = "closed")
        => (http'.resp = ClosedGreetingOnly /\ calls' = calls)]_vars

\* A handle callback was just answered while closed, for a call whose stored
\* session is in the middle of an order.
C2_Witness ==
    /\ http.ep = "voice_handle"
    /\ http.seen.mode = "closed"
    /\ http.resp = ClosedGreetingOnly
    /\ Live(calls[http.sid], clock)
    /\ calls[http.sid].val.state = "confirm_more"
    /\ calls[http.sid].val.items # <<>>

\* The document that dials the fallback number.
IsDialFallback(resp) == "dial" \in DOMAIN resp

\* C6: an incoming or handle callback whose overrides have bot_enabled=false
\* is answered with the dial-the-fallback-number document, and no session is
\* read, created or changed.
C6_FallbackWhenBotDisabled ==
    [][((Answered("voice_incoming") \/ Answered("voice_handle")) /\ ~http'.seen.bot_enabled)
        => (/\ IsDialFallback(http'.resp)
            /\ ~Get(http', "session_read", FALSE)
            /\ calls' = calls)]_vars

---------------------------------------------------------------------------
(* Claims about the dialogue of FlowManager                                *)

\* C1: every live session has total = sum of qty * price over its items.
C1_TotalIsSumOfItems ==
    \A sid \in CallSids :
        Live(calls[sid], clock) => calls[sid].val.total = _total(calls[sid].val.items)

\* The dialogue state a turn of the call starts from, as the store has it.
StoredState(sid) == IF Live(calls[sid], clock) THEN calls[sid].val.state ELSE "greet"

\* C11: a turn returns next=end only from fulfilment, crm_confirm or address,
\* and the stored session enters each state only from the state before it
\* in the order greet, ask_items, confirm_more, confirm_summary (answered
\* yes), fulfilment, phone, crm_confirm or address; ask_items alone can be
\* entered from anywhere. So no sequence of turns reaches end past a state.
C11_EndOnlyThroughEveryState ==
    [][\A sid \in CallSids : (Answered("handle_utterance") /\ http'.sid = sid) =>
        LET pre == StoredState(sid)
            post == StoredState(sid)'
            next == http'.resp.next
        IN  /\ next = "end" => pre \in {"fulfilment", "crm_confirm", "address"}
            /\ post # pre =>
                 /\ post \in {"ask_items", "confirm_more", "confirm_summary",
                              "fulfilment", "phone", "crm_confirm", "address"}
                 /\ post = "confirm_more" => pre = "ask_items"
                 /\ post = "confirm_summary" => pre = "confirm_more"
                 /\ post = "fulfilment" => (pre = "confirm_summary" /\ next = "fulfilment")
                 /\ post = "phone" => pre = "fulfilment"
                 /\ post = "crm_confirm" => pre = "phone"
                 /\ post = "address" => pre \in {"phone", "crm_confirm"}]_vars

\* A delivery call was just given its final turn from crm_confirm.
C11_Witness ==
    /\ http.ep = "handle_utterance"
    /\ http.resp.next = "end"
    /\ http.read_ok
    /\ http.session.state = "crm_confirm"
    /\ http.session.items # <<>>

\* C12: a no answer in confirm_summary (the turn that replies ask_items from
\* that state) leaves the stored session in ask_items with items=[] and
\* total=0.
C12_NoResetsBasket ==
    [][\A sid \in CallSids :
        (/\ Answered("handle_utterance") /\ http'.sid = sid
         /\ http'.session.state = "confirm_summary"
         /\ http'.resp = Reply(<<Msg("ask_items")>>, "ask_items")
         /\ StoredState(sid)' = "ask_items")
        => (calls'[sid].val.items = <<>> /\ calls'[sid].val.total = 0)]_vars

\* The Order records of a call in the keyed store.
OrdersOf(sid) == {o \in orders.keys : Get(o.val.payload, "call_id", "") = sid}

\* C13: the turn that finalises a delivery (crm_confirm answered yes, or
\* address completed) writes the Order of the call, and the call then has
\* exactly one Order.
C13_FinalisationWritesOneOrder ==
    [][\A sid \in CallSids :
        (/\ Answered("handle_utterance") /\ http'.sid = sid
         /\ http'.session.state \in {"crm_confirm", "address"}
         /\ http'.resp.next = "end")
        => (orders' # orders /\ Cardinality(OrdersOf(sid)') = 1)]_vars

\* The reply a turn of the call would get now for what is said, the store
\* being available.
NextReply(sid, speech) ==
    LET utt == lower(strip(speech))
    IN  handle_turn(_getc(sid, TRUE), utt, Memo(NormTexts, _norm_txt, utt),
                    runtime_status(clock, _ovr_load(TRUE))).resp

\* C14: once a turn has returned next=end for a call, no later turn of that
\* call, whatever is said, runs a transition of the old session that
\* returns next=end again.
C14_NoSecondFinalisation ==
    (http.ep = "handle_utterance" /\ http.resp.next = "end")
        => \A speech \in FlowUtterances : NextReply(http.sid, speech).next # "end"

\* C15: every write of a session sets its expiry to 2 hours from the write;
\* a session whose 2 hours have passed is destroyed, and a turn that reads
\* the store then starts from greet with an empty basket, while a session
\* written less than 2 hours ago is read as it was last written.
C15_SessionLivesTwoHours ==
    [][\A sid \in CallSids :
        /\ (Answered("handle_utterance") /\ http'.sid = sid) =>
             /\ calls'[sid] # calls[sid] =>
                  (calls'[sid].present /\ calls'[sid].expires_at = clock + HMS(2, 0, 0))
             /\ http'.read_ok =>
                  IF calls[sid].present /\ clock < calls[sid].expires_at
                  THEN http'.session = calls[sid].val
                  ELSE (http'.session.state = "greet" /\ http'.session.items = <<>>)
        /\ (clock' # clock /\ calls[sid].present /\ clock' >= calls[sid].expires_at)
             => ~calls'[sid].present]_vars

\* A session written at 19:00 was found, with its items, one second before
\* its two hours were over, by a turn that did not write it again.
C15_Witness ==
    /\ http.ep = "handle_utterance"
    /\ http.read_ok
    /\ clock = HMS(20, 59, 59)
    /\ calls[http.sid].present
    /\ calls[http.sid].expires_at = HMS(21, 0, 0)
    /\ http.session = calls[http.sid].val
    /\ http.session.items # <<>>

\* C16: in address a turn returns next=end only when a postcode and a house
\* number were both extracted from what was said in that turn; every other
\* turn in address replies ask_postcode_house and stays in address.
C16_AddressNeedsBoth ==
    [][\A sid \in CallSids :
        (/\ Answered("handle_utterance") /\ http'.sid = sid
         /\ http'.session.state = "address"
         /\ Memo(NormTexts, _norm_txt, http'.utt) # <<"i", "k", " ", "w", "i", "l", " ", "b", "e", "s", "t", "e", "l", "l", "e", "n">>)
        => IF /\ Memo(Postcodes, search_postcode, http'.utt) # <<>>
              /\ Memo(HouseNumbers, search_house_number, http'.utt) # <<>>
           THEN http'.resp.next = "end"
           ELSE http'.resp = Reply(<<Msg("ask_postcode_house")>>, "address")]_vars

\* C17: an admin write of the overrides is answered as successful only when
\* the record of that request is in the store.
C17_AdminWriteFailureSurfaces ==
    [][(Answered("admin_toggles") /\ http'.resp.code = 200)
        => (/\ ovr'.present
            /\ ovr'.written_at = clock
            /\ ovr'.req = http'.req)]_vars

\* C18: a turn whose read of the session fails starts from the default
\* session (greet, no items, total 0); whatever writes of the turn fail, the
\* turn returns its messages and next state, and the stored session is the
\* last one written successfully (the one before the turn when none was).
C18_StoreFailuresTolerated ==
    [][\A sid \in CallSids :
        (Answered("handle_utterance") /\ http'.sid = sid) =>
            LET done == {i \in DOMAIN http'.woks : http'.woks[i]}
            IN  /\ ~http'.read_ok =>
                     (/\ http'.session.state = "greet"
                      /\ http'.session.items = <<>>
                      /\ http'.session.total = 0)
                /\ http'.resp.messages # <<>>
                /\ http'.resp.next \in {"ask_items", "confirm_more", "confirm_summary",
                                       "fulfilment", "phone", "crm_confirm", "address",
                                       "end"}
                /\ IF done = {}
                   THEN calls'[sid] = calls[sid]
                   ELSE \E i \in done :
                          /\ \A j \in done : j <= i
                          /\ calls'[sid].present
                          /\ calls'[sid].val = http'.writes[i]]_vars

\* The items of a turn were stored by its first write and the write of the
\* next state failed: the reply still moves on to confirm_more.
C18_Witness ==
    /\ http.ep = "handle_utterance"
    /\ http.woks = <<TRUE, FALSE>>
    /\ http.resp.next = "confirm_more"
    /\ calls[http.sid].present
    /\ calls[http.sid].val.state = "ask_items"
    /\ calls[http.sid].val.items # <<>>

\* A record the admin API accepts as it is: the delays in the allowed set
\* and the mode override one of auto, open, closed.
ValidOverrides(body) ==
    /\ body # BadJSON
    /\ Get(body, "delay_pasta_minutes", 0) \in {0, 10, 20, 30, 45, 60}
    /\ Get(body, "delay_schotels_minutes", 0) \in {0, 10, 20, 30, 45, 60}
    /\ Get(body, "is_open_override", "auto") \in {"auto", "open", "closed"}

\* C19: a valid overrides record that was written is read back, while it is
\* stored, with every field it was written with.
C19_OverridesRoundTrip ==
    (OverridesStored /\ ValidOverrides(ovr.req))
        => \A k \in DOMAIN ovr.req :
              /\ k \in DOMAIN load_overrides(TRUE)
              /\ load_overrides(TRUE)[k] = ovr.req[k]

\* C20: the delays of the stored overrides and of the status either service
\* evaluates are always in {0, 10, 20, 30, 45, 60}.
C20_DelaysAlwaysAllowed ==
    /\ OverridesStored =>
         /\ ovr.val.delay_pasta_minutes \in {0, 10, 20, 30, 45, 60}
         /\ ovr.val.delay_schotels_minutes \in {0, 10, 20, 30, 45, 60}
    /\ \A rok \in BOOLEAN :
         /\ StatusNow(rok).delay_pasta_minutes \in {0, 10, 20, 30, 45, 60}
         /\ StatusNow(rok).delay_schotels_minutes \in {0, 10, 20, 30, 45, 60}
         /\ runtime_status(clock, _ovr_load(rok)).delay_pasta_minutes \in {0, 10, 20, 30, 45, 60}
         /\ runtime_status(clock, _ovr_load(rok)).delay_schotels_minutes \in {0, 10, 20, 30, 45, 60}

\* A request with delays 25 and 45 was stored and is served as 20 and 45.
C20_Witness ==
    /\ OverridesStored
    /\ Get(ovr.req, "delay_pasta_minutes", 0) = 25
    /\ ovr.val.delay_pasta_minutes = 20
    /\ StatusNow(TRUE).delay_pasta_minutes = 20
    /\ StatusNow(TRUE).delay_schotels_minutes = 45

---------------------------------------------------------------------------
(* Claims about the parsers and the turns of the dialogue                  *)

\* C21: every item of every stored session has qty >= 1, and neither parser
\* returns an item with qty <= 0 for anything that is said, a quantity of 0
\* included.
C21_StoredQtyPositive ==
    /\ \A sid \in CallSids :
         calls[sid].present =>
            \A i \in DOMAIN calls[sid].val.items : calls[sid].val.items[i].qty >= 1
    /\ \A t \in DOMAIN ParsedQty :
         \A i \in DOMAIN ParsedQty[t] : ParsedQty[t][i].qty >= 1
    /\ \A t \in DOMAIN ParsedItems :
         \A i \in DOMAIN ParsedItems[t] : ParsedItems[t][i].qty >= 1

\* "0 salami" was said in ask_items and one Pizza Salami is in the basket.
C21_Witness ==
    /\ http.ep = "handle_utterance"
    /\ http.utt = <<"0", " ", "s", "a", "l", "a", "m", "i">>
    /\ http.session.state = "ask_items"
    /\ calls[http.sid].present
    /\ calls[http.sid].val.items # <<>>
    /\ calls[http.sid].val.items[Len(calls[http.sid].val.items)].qty = 1
    /\ _parse_qty_and_name(http.utt) = <<Item(MENU_ITEMS[2], 1)>>

\* C22: a turn in ask_items whose utterance has the word pizza (pizza, pizzas,
\* pizza's) and no word that tells one menu item from another (a word of an
\* item's name other than pizza) replies ask_pizza_which with next=ask_items
\* and leaves the items of the stored session as they were.
C22_PizzaWithoutKindAsksWhich ==
    [][\A sid \in CallSids :
        LET said == Memo(NormTexts, _norm_txt, http'.utt)
            kinds == UNION {Range(MENU[k].tokens) : k \in DOMAIN MENU}
                        \ {<<"p", "i", "z", "z", "a">>}
        IN  (/\ Answered("handle_utterance") /\ http'.sid = sid
             /\ http'.session.state = "ask_items"
             /\ search_pizza(said)
             /\ Range(split(said)) \cap kinds = {})
            => (/\ http'.resp = Reply(<<Msg("ask_pizza_which")>>, "ask_items")
                /\ calls'[sid].present => calls'[sid].val.items = http'.session.items)]_vars

\* C23: a turn in ask_items, confirm_more, confirm_summary, fulfilment,
\* crm_confirm or address whose utterance meets none of the conditions of
\* that state (no yes or no word, no word of the menu, no fulfilment word,
\* not a postcode with a house number, not the request to start an order)
\* gets the re-ask prompt of that state, and the stored session keeps its
\* state, items, total and customer.
C23_MalformedInputStays ==
    [][\A sid \in CallSids :
        LET s == http'.session
            said == Memo(NormTexts, _norm_txt, http'.utt)
            words == Range(split(said))
            yes == words \cap {<<"j", "a">>, <<"k", "l", "o", "p", "t">>, <<"c", "o", "r", "r", "e", "c", "t">>, <<"n", "o", "g">>, <<"m", "e", "e", "r">>, <<"t", "o", "e", "v", "o", "e", "g", "e", "n">>} # {}
            no == words \cap {<<"n", "e", "e">>, <<"k", "l", "a", "a", "r">>, <<"n", "i", "e", "t", "s">>, <<"a", "n", "d", "e", "r", "s">>} # {}
            food == words \cap (UNION {Range(MENU[k].tokens) : k \in DOMAIN MENU}) # {}
                        \/ search_pizza(said)
            fulfil == words \cap {<<"a", "f", "h", "a", "a", "l">>, <<"a", "f", "h", "a", "l", "e", "n">>, <<"o", "p", "h", "a", "l", "e", "n">>, <<"b", "e", "z", "o", "r", "g">>, <<"b", "e", "z", "o", "r", "g", "e", "n">>, <<"t", "h", "u", "i", "s">>} # {}
            addressed == /\ Memo(Postcodes, search_postcode, http'.utt) # <<>>
                         /\ Memo(HouseNumbers, search_house_number, http'.utt) # <<>>
            malformed ==
                CASE s.state = "ask_items" -> ~food
                  [] s.state = "confirm_more" -> ~yes /\ ~no /\ ~food
                  [] s.state \in {"confirm_summary", "crm_confirm"} -> ~yes /\ ~no
                  [] s.state = "fulfilment" -> ~fulfil
                  [] s.state = "address" -> ~addressed
                  [] OTHER -> FALSE
            reask ==
                CASE s.state = "ask_items" -> <<Msg("ask_items")>>
                  [] s.state = "confirm_more" -> <<Msg("ask_items_more")>>
                  [] s.state = "confirm_summary" -> <<Msg("ask_items_confirm_ok")>>
                  [] s.state = "fulfilment" -> <<Msg("ask_fulfilment")>>
                  [] s.state = "crm_confirm" -> <<confirm_lookup_found(s.customer)>>
                  [] OTHER -> <<Msg("ask_postcode_house")>>
        IN  (/\ Answered("handle_utterance") /\ http'.sid = sid
             /\ ~IsSub(<<"i", "k", " ", "w", "i", "l", " ", "b", "e", "s", "t", "e", "l", "l", "e", "n">>, said)
             /\ malformed)
            => (/\ http'.resp = Reply(reask, s.state)
                /\ calls'[sid].present =>
                     /\ calls'[sid].val.state = s.state
                     /\ calls'[sid].val.items = s.items
                     /\ calls'[sid].val.total = s.total
                     /\ calls'[sid].val.customer = s.customer)]_vars

\* C24: a turn in phone (the request to start an order aside) whose writes
\* succeed stores the digits of the utterance as customer.tel; when the
\* customer directory has a row for those digits it also stores the street,
\* house number and postcode of the row, replies confirm_lookup_found with
\* them and moves to crm_confirm; when there are no digits or no row it
\* replies confirm_lookup_missing and moves to address, and the stored
\* customer has no street, house number or postcode.
C24_PhoneLookup ==
    [][\A sid \in CallSids :
        LET s == http'.session
            tel == SelectSeq(http'.utt, LAMBDA c : c \in DigitSet)
            rows == {r \in DOMAIN CustomerRows :
                        \/ SelectSeq(CustomerRows[r].phone, LAMBDA c : c \in DigitSet) = tel
                        \/ SelectSeq(CustomerRows[r].mobile, LAMBDA c : c \in DigitSet) = tel}
            stored == calls'[sid].val
        IN  (/\ Answered("handle_utterance") /\ http'.sid = sid
             /\ s.state = "phone"
             /\ ~IsSub(<<"i", "k", " ", "w", "i", "l", " ", "b", "e", "s", "t", "e", "l", "l", "e", "n">>, http'.utt)
             /\ \A i \in DOMAIN http'.woks : http'.woks[i])
            => /\ calls'[sid].present
               /\ Get(stored.customer, "tel", None) = tel
               /\ stored.items = s.items
               /\ IF tel # <<>> /\ rows # {}
                  THEN \E r \in rows :
                         /\ stored.state = "crm_confirm"
                         /\ stored.customer.straat = CustomerRows[r].street1
                         /\ stored.customer.huisnr = CustomerRows[r].house_number
                         /\ stored.customer.postcode = CustomerRows[r].postcode
                         /\ http'.resp =
                              Reply(<<[key |-> "confirm_lookup_found",
                                       straat |-> CustomerRows[r].street1,
                                       huisnr |-> CustomerRows[r].house_number,
                                       postcode |-> CustomerRows[r].postcode]>>, "crm_confirm")
                  ELSE /\ stored.state = "address"
                       /\ http'.resp = Reply(<<Msg("confirm_lookup_missing")>>, "address")
                       /\ DOMAIN stored.customer \cap {"straat", "huisnr", "postcode"} = {}]_vars

\* The fee rule: the fee of the first zone of the configuration with a
\* prefix that starts the postcode, 0 when no zone has one.
ZoneFee(pc) ==
    LET zones == DeliveryConfig.zones
        zone_of == {z \in DOMAIN zones :
                      \E n \in DOMAIN zones[z].postcodes :
                          LET pre == zones[z].postcodes[n]
                          IN  Len(pre) <= Len(pc) /\ \A i \in DOMAIN pre : pc[i] = pre[i]}
    IN  IF zone_of = {} THEN 0
        ELSE zones[CHOOSE z \in zone_of : \A y \in zone_of : z <= y].fee

\* _delivery_fee follows the rule on postcodes as they are said or stored.
FeeRuleFollowed ==
    /\ _delivery_fee(<<>>) = 0
    /\ \A pc \in {<<"1", "2", "3", "4", "A", "B">>, <<"1", "2", " ", "9", "9", " ", "z", "z">>, <<"1", "3", "0", "0", "A", "A">>, <<"9", "9", "9", "9", "X", "X">>, <<"1">>} :
          _delivery_fee(pc) = ZoneFee(upper(without_spaces(pc)))

\* C25: the amount a delivery finalisation speaks is, in whole euros, the sum
\* of qty * price over the basket plus the delivery fee of the customer's
\* postcode; the fee of a postcode is that of the first zone of the
\* configuration with a prefix that starts the postcode (spaces removed,
\* upper case), and 0 when no zone has one or the postcode is empty.
C25_DeliveryAmountIsTotalPlusFee ==
    [][/\ FeeRuleFollowed
       /\ \A sid \in CallSids :
            (/\ Answered("handle_utterance") /\ http'.sid = sid
             /\ http'.session.state \in {"crm_confirm", "address"}
             /\ http'.resp.next = "end")
            => LET customer == IF http'.writes = <<>> THEN http'.session.customer
                               ELSE http'.writes[Len(http'.writes)].customer
               IN  /\ http'.resp.messages[2].key = "total_after_confirm"
                   /\ Abs(100 * http'.resp.messages[2].amount
                            - (_total(http'.session.items)
                                 + ZoneFee(Get(customer, "postcode", <<>>)))) <= 50]_vars

\* One Pizza Salami of 10.50 was delivered to 1234AB, where the first zone
\* (1234, fee 2.50) and the second (12, fee 4.00) both match: 13 euros.
C25_Witness ==
    /\ http.ep = "handle_utterance"
    /\ http.session.state = "crm_confirm"
    /\ http.resp.next = "end"
    /\ _total(http.session.items) = 1050
    /\ http.session.customer.postcode = <<"1", "2", "3", "4", "A", "B">>
    /\ http.resp.messages[2].amount = 13

\* C26: the time a final turn quotes is the minute of now + the SLA minutes
\* of the fulfilment (pickup from fulfilment, delivery from crm_confirm and
\* address) + the larger of the two delays of the overrides stored at that
\* turn; the delays are 0 when no overrides are stored or they cannot be read.
C26_EtaUsesDelaysAtFinalTurn ==
    [][\A sid \in CallSids :
        (/\ Answered("handle_utterance") /\ http'.sid = sid
         /\ http'.resp.next = "end")
        => LET pickup == http'.session.state = "fulfilment"
               sla == IF pickup THEN DeliveryConfig.sla.pickup_minutes
                      ELSE DeliveryConfig.sla.delivery_minutes
               delay == IF http'.status_read_ok /\ ovr.present /\ clock < ovr.expires_at
                        THEN IF ovr.val.delay_pasta_minutes >= ovr.val.delay_schotels_minutes
                             THEN ovr.val.delay_pasta_minutes
                             ELSE ovr.val.delay_schotels_minutes
                        ELSE 0
               quoted == http'.resp.messages[1]
           IN  /\ quoted.key = IF pickup THEN "pickup_eta" ELSE "delivery_eta"
               /\ quoted.time = ((clock + (sla + delay) * 60) % HMS(24, 0, 0)) \div 60]_vars

\* A pickup was finalised at 20:59:59 with a delay of 20 minutes that was
\* set after the last write of the session: ready at 21:34.
C26_Witness ==
    /\ http.ep = "handle_utterance"
    /\ http.session.state = "fulfilment"
    /\ http.resp.next = "end"
    /\ http.status_read_ok
    /\ clock = HMS(20, 59, 59)
    /\ OverridesStored
    /\ ovr.val.delay_pasta_minutes = 20
    /\ ovr.written_at > calls[http.sid].expires_at - CALL_TTL
    /\ http.resp.messages[1].time = 21 * 60 + 34

\* C27: a turn of a call, through either service, leaves the session of
\* every other call as it was; a turn of FlowManager reads the session stored
\* for its own call (the default session when there is none or the read
\* fails), and its reply and the session it stores are those of that turn on
\* that session alone. So each call runs as if no other call existed.
C27_SessionsPartitionedByCall ==
    [][\A sid \in DOMAIN calls :
        /\ ((Answered("handle_utterance") \/ Answered("voice_handle")) /\ http'.sid = sid)
              => \A other \in DOMAIN calls \ {sid} : calls'[other] = calls[other]
        /\ (Answered("handle_utterance") /\ http'.sid = sid)
              => LET own == IF http'.read_ok /\ calls[sid].present /\ clock < calls[sid].expires_at
                            THEN calls[sid].val
                            ELSE DefaultCall
                     alone == handle_turn(own, http'.utt, Memo(NormTexts, _norm_txt, http'.utt),
                                          runtime_status(clock, _ovr_load(http'.status_read_ok)))
                 IN  /\ http'.session = own
                     /\ http'.resp = alone.resp
                     /\ calls'[sid] = savec_all(calls[sid], alone.writes, http'.woks)]_vars

\* Both calls are under way in different states, and a turn of the second
\* was just answered from its own session.
C27_Witness ==
    /\ http.ep = "handle_utterance"
    /\ http.sid = "CA2"
    /\ http.read_ok
    /\ http.session.state = "confirm_more"
    /\ http.resp.next = "confirm_summary"
    /\ calls["CA1"].present
    /\ calls["CA1"].val.state = "fulfilment"
    /\ calls["CA2"].present
    /\ calls["CA2"].val.state = "confirm_summary"

\* C30: every stored session in confirm_more, confirm_summary, fulfilment,
\* phone, crm_confirm or address has at least one item, and a turn that
\* returns next=end started from a session with at least one item.
C30_BasketNonEmptyPastAskItems ==
    /\ \A sid \in CallSids :
         (/\ calls[sid].present
          /\ calls[sid].val.state \in {"confirm_more", "confirm_summary", "fulfilment",
                                      "phone", "crm_confirm", "address"})
         => calls[sid].val.items # <<>>
    /\ (http.ep = "handle_utterance" /\ http.resp.next = "end")
         => http.session.items # <<>>

\* The first items of a call were said; the save of the items failed and
\* the save of the move to confirm_more stored them.
C30_Witness ==
    /\ http.ep = "handle_utterance"
    /\ http.session.items = <<>>
    /\ http.woks = <<FALSE, TRUE>>
    /\ calls[http.sid].present
    /\ calls[http.sid].val.state = "confirm_more"
    /\ calls[http.sid].val.items # <<>>

---------------------------------------------------------------------------
(* Claims about the documents of the voice webhooks and the order sink     *)

\* C28: the document of a handle callback ends without a redirect exactly
\* when the turn is the final one (the turn of the eta state, which speaks
\* the ready time, the total and the closing) or the restaurant is closed;
\* every other turn answers with a document that redirects to the step
\* endpoint.
C28_RedirectUnlessFinal ==
    [][Answered("voice_handle") =>
        LET final == http'.from_state = "eta"
            closed == http'.seen.mode = "closed"
        IN  /\ http'.resp.code = 200
            /\ http'.resp.redirect <=> ~(final \/ closed)
            /\ (final /\ ~closed) =>
                 (Len(http'.resp.plays) = 3 /\ http'.resp.plays[3] = Msg("closing"))]_vars

\* The final turn of a pickup was answered: three messages and no redirect.
C28_Witness ==
    /\ http.ep = "voice_handle"
    /\ http.from_state = "eta"
    /\ http.seen.mode = "open"
    /\ ~http.resp.redirect
    /\ http.resp.plays[1].key = "eta_pickup"
    /\ http.resp.plays[3] = Msg("closing")

\* C29: when POST /order/submit answers ok with an order_id, an Order with
\* that id is in the keyed store or in the log.
C29_OkOnlyForWrittenOrder ==
    [][(Answered("order_submit") /\ http'.resp.code = 200 /\ http'.resp.ok)
        => \/ \E o \in orders'.keys : o.order_id = http'.resp.order_id
           \/ \E i \in DOMAIN orders'.log : orders'.log[i].order_id = http'.resp.order_id]_vars

---------------------------------------------------------------------------
(* Claims about overlapping callbacks, partial writes and progress         *)

\* Both callbacks of the call have returned.
BothReturned == \A c \in Callbacks : http.cb[c].pc = "done"

\* The item a reply announced with item_added is in the stored basket.
AnnouncedStored(c) ==
    \A i \in DOMAIN http.cb[c].resp.messages :
        LET m == http.cb[c].resp.messages[i]
            basket == _getc(http.cb[c].sid, TRUE).items
        IN  m.key = "item_added"
                => \E j \in DOMAIN basket : basket[j].name = m.name /\ basket[j].qty = m.qty

\* C31: once two overlapping callbacks of one call have both returned, every
\* item announced with item_added is in the stored basket and the stored
\* state is the next state of the callback that returned last.
C31_OverlapKeepsAnnouncedItems ==
    (http.ep = "overlap" /\ BothReturned)
        => /\ \A c \in Callbacks : AnnouncedStored(c)
           /\ StoredState(http.cb[http.last].sid) = http.cb[http.last].resp.next

\* The states voice_handle has a branch for.
RoutedStates ==
    {"greet", "ask_items", "collecting", "confirm_more", "fulfilment", "phone",
     "crm_confirm", "address", "payment", "eta"}

\* C32: whichever of the session writes of a voice_handle turn fail, the
\* stored session is in a state voice_handle has a branch for; no call is
\* stored in a state (such as summarize) whose turns only replay fallback1.
C32_StoredStateIsRouted ==
    \A sid \in CallSids : Live(calls[sid], clock) => calls[sid].val.state \in RoutedStates

\* The turn just answered returned next=end.
EndReceived == http.ep = "handle_utterance" /\ http.resp.next = "end"

\* C33: from every reachable stored state, with the store available, a caller
\* who answers each state with something the state recognises eventually
\* receives next=end; no stored state is a dead end.
C33_CooperativeCallerReachesEnd == (clock = CooperativeFrom) ~> EndReceived

C33_Witness ==
    /\ clock = CooperativeFrom
    /\ EndReceived
    /\ http.session.state = "address"
    /\ Len(http.session.items) = MaxItems

====
